---- MODULE Spec2Model ----
(***************************************************************************)
(* Model of src/utils/lichess_bot.py: the BotService manager thread, the   *)
(* GameSession threads it starts, the registry they share under            *)
(* games_lock, and the stop signal.                                        *)
(***************************************************************************)
EXTENDS Integers, Sequences, FiniteSets, TLC

(***************************************************************************)
(* Bounds of the model.                                                    *)
(***************************************************************************)
\* Longest move list an event carries.
MaxPly == 2
\* Largest max_concurrent_games the manager specification is run with.
MaxCap == 2

\* Game ids the platform may name in gameStart events.
Games == {"g1", "g2"}
\* The game id used by the single-session specification.
SoloGames == {"g1"}

\* Python's None for an optional integer (pending_move_ply).
NoPly == -1

(***************************************************************************)
(* The chess-rules capability (python-chess), by what the session uses of  *)
(* it.  A move token is "m" (a legal move), "k" (a legal move that ends    *)
(* the game) or "x" (a token push_uci rejects with ValueError).  After a   *)
(* game-ending move no move is legal.                                      *)
(***************************************************************************)
Tokens == {"m", "k", "x"}

RECURSIVE SeqsUpTo(_, _)
SeqsUpTo(S, n) ==
    IF n = 0 THEN {<<>>}
    ELSE LET shorter == SeqsUpTo(S, n - 1)
         IN  shorter \cup {Append(q, t) : q \in {r \in shorter : Len(r) = n - 1}, t \in S}

MoveLists == SeqsUpTo(Tokens, MaxPly)

\* initialFen values: the standard start, or a position with black to move.
InitialFens == {"startpos", "fenBlack"}

\* chess.Board() / chess.Board(fen): the position before any move is pushed.
NewBoard(fen) == [fen |-> fen, stack |-> <<>>]

\* Board.ply(): half-moves since the start of the game (1 when the initial
\* position has black to move at move 1).
BasePly(fen) == IF fen = "startpos" THEN 0 ELSE 1
Ply(board) == BasePly(board.fen) + Len(board.stack)

\* Board.turn
Turn(board) == IF Ply(board) % 2 = 0 THEN "white" ELSE "black"

\* Board.is_game_over()
IsGameOver(board) == Len(board.stack) > 0 /\ board.stack[Len(board.stack)] = "k"

\* The value standing for a ValueError raised by the chess library.
ValueError == [fen |-> "ValueError", stack |-> <<>>]

\* Board.push_uci(token): the new board, or ValueError.
PushUci(board, token) ==
    IF token = "x" \/ IsGameOver(board) THEN ValueError
    ELSE [board EXCEPT !.stack = Append(@, token)]

\* The replay loop of _rebuild_board: push every token in order; the first
\* rejected token aborts the replay.
RECURSIVE ReplayFrom(_, _)
ReplayFrom(board, moves) ==
    IF moves = <<>> THEN board
    ELSE LET next == PushUci(board, Head(moves))
         IN  IF next = ValueError THEN ValueError ELSE ReplayFrom(next, Tail(moves))

Replay(fen, moves) == ReplayFrom(NewBoard(fen), moves)

(***************************************************************************)
(* Events of a game stream (stream_game_state).  names tells which player  *)
(* name of a gameFull equals the bot's own; hasState is FALSE when the     *)
(* state payload is missing or empty.  "malformed" is a dict whose shape   *)
(* makes _handle_event raise before it changes anything.                   *)
(***************************************************************************)
allowed_variants == {"standard"}

GameEvent(type, variant, fen, names, hasState, moves, status) ==
    [type |-> type, variant |-> variant, initialFen |-> fen, names |-> names,
     hasState |-> hasState, moves |-> moves, status |-> status]

NoEvent == GameEvent("none", "standard", "startpos", "neither", FALSE, <<>>, "started")

PlainEvent(type) == GameEvent(type, "standard", "startpos", "neither", FALSE, <<>>, "started")

GameStateEvents(lists, statuses) ==
    {GameEvent("gameState", "standard", "startpos", "neither", TRUE, ml, st) :
        ml \in lists, st \in statuses}

GameFullEvents(fens, lists, statuses) ==
    {GameEvent("gameFull", "standard", f, n, TRUE, ml, st) :
        f \in fens, n \in {"white", "black", "neither"}, ml \in lists, st \in statuses}
    \cup {GameEvent("gameFull", "standard", f, n, FALSE, <<>>, "started") :
        f \in fens, n \in {"white", "black", "neither"}}
    \cup {GameEvent("gameFull", "chess960", "startpos", "white", TRUE, <<>>, "started")}

OtherEvents == {PlainEvent("chatLine"), PlainEvent("opponentGone"),
                PlainEvent("unknown"), PlainEvent("malformed")}

\* Every event the single-session specification delivers.
AllGameEvents ==
    GameStateEvents(MoveLists, {"started", "mate"})
    \cup GameFullEvents(InitialFens, MoveLists, {"started", "mate"})
    \cup OtherEvents

(***************************************************************************)
(* State.                                                                  *)
(***************************************************************************)
VARIABLES
    config,        \* BotConfig: fixed at startup
    stop_event,    \* BotService.stop_event
    games_lock,    \* holder of BotService.games_lock: "free", "main" or a game id
    active_games,  \* BotService.active_games: registered game ids, in insertion order
    sess,          \* game id -> the GameSession registered last under that id
    mpc,           \* position of the manager thread in run_forever
    mev,           \* the incoming event the manager is handling
    mbackoff,      \* run_forever's backoff
    joining,       \* _shutdown's snapshot: sessions still to be joined
    mcalls,        \* platform requests the manager made for the current event
    hist,          \* history: per game, the ply of a submission not yet acknowledged
    limit          \* the clock fields of a state dict and the Limit _build_limit made of them

vars == <<config, stop_event, games_lock, active_games, sess, mpc, mev, mbackoff,
          joining, mcalls, hist, limit>>

mainVars == <<mpc, mev, mbackoff, joining, mcalls>>

\* One entry of a call log: an outgoing request and how it ended.
Call(op, arg, result) == [op |-> op, arg |-> arg, result |-> result]

Min(a, b) == IF a <= b THEN a ELSE b

(***************************************************************************)
(* GameSession.                                                            *)
(***************************************************************************)
\* GameSession.__init__: the fields of a session that has not run yet.
NewSession ==
    [pc |-> "new", engine |-> "None", board |-> NewBoard("startpos"),
     initial_fen |-> "startpos", is_white |-> "None", finished |-> FALSE,
     pending_move_ply |-> NoPly, backoff |-> 0, attempt |-> 0,
     event |-> NoEvent, move |-> "None", calls |-> <<>>]

\* No session was ever created for the game id.
NoSession == [NewSession EXCEPT !.pc = "absent"]

\* GameSession._set_color
SetColor(s, names) ==
    IF names = "white" THEN [s EXCEPT !.is_white = "True"]
    ELSE IF names = "black" THEN [s EXCEPT !.is_white = "False"]
    ELSE s

\* Mutant of OurColor: the colours are swapped.
OurColorSwapped(s) == IF s.is_white = "True" THEN "black" ELSE "white"

\* The colour the session plays, as a Board.turn value.
OurColor(s) == IF s.is_white = "True" THEN "white" ELSE "black"

\* Mutant of PendingAcknowledged: an event at the submitted ply acknowledges.
PendingAcknowledgedAtSamePly(board, k) == k # NoPly /\ Ply(board) >= k

\* GameSession._handle_state when the pending marker is k: acknowledged?
PendingAcknowledged(board, k) == k # NoPly /\ Ply(board) > k

\* Mutant of HandleState: the move list is taken as a delta and pushed onto
\* the board the session holds.
HandleStateAppliesDelta(s, ev) ==
    IF ~ev.hasState THEN s
    ELSE LET board == ReplayFrom(s.board, ev.moves)
         IN  IF board = ValueError THEN s
             ELSE LET s1 == [s EXCEPT !.board = board]
                      s2 == IF PendingAcknowledged(board, s1.pending_move_ply)
                            THEN [s1 EXCEPT !.pending_move_ply = NoPly]
                            ELSE s1
                  IN  IF ev.status # "started" \/ IsGameOver(board)
                      THEN [s1 EXCEPT !.finished = TRUE]
                      ELSE IF s2.pending_move_ply # NoPly THEN s2
                      ELSE IF s2.is_white = "None" THEN s2
                      ELSE IF Turn(board) # OurColor(s2) THEN s2
                      ELSE [s2 EXCEPT !.pc = "play", !.attempt = 1, !.event = ev]

\* Mutant of HandleState: the test for an unresolved colour is missing, so an
\* unresolved session plays as black.
HandleStateGuessesColour(s, ev) ==
    IF ~ev.hasState THEN s
    ELSE LET board == Replay(s.initial_fen, ev.moves)
         IN  IF board = ValueError THEN s
             ELSE LET s1 == [s EXCEPT !.board = board]
                      s2 == IF PendingAcknowledged(board, s1.pending_move_ply)
                            THEN [s1 EXCEPT !.pending_move_ply = NoPly]
                            ELSE s1
                  IN  IF ev.status # "started" \/ IsGameOver(board)
                      THEN [s1 EXCEPT !.finished = TRUE]
                      ELSE IF s2.pending_move_ply # NoPly THEN s2
                      ELSE IF Turn(board) # OurColor(s2) THEN s2
                      ELSE [s2 EXCEPT !.pc = "play", !.attempt = 1, !.event = ev]

\* Mutant of HandleState: a game-over board does not finish the session.
HandleStateIgnoresBoardOver(s, ev) ==
    IF ~ev.hasState THEN s
    ELSE LET board == Replay(s.initial_fen, ev.moves)
         IN  IF board = ValueError THEN s
             ELSE LET s1 == [s EXCEPT !.board = board]
                      s2 == IF PendingAcknowledged(board, s1.pending_move_ply)
                            THEN [s1 EXCEPT !.pending_move_ply = NoPly]
                            ELSE s1
                  IN  IF ev.status # "started"
                      THEN [s1 EXCEPT !.finished = TRUE]
                      ELSE IF s2.pending_move_ply # NoPly THEN s2
                      ELSE IF s2.is_white = "None" THEN s2
                      ELSE IF Turn(board) # OurColor(s2) THEN s2
                      ELSE [s2 EXCEPT !.pc = "play", !.attempt = 1, !.event = ev]

\* Mutant of HandleState: an event that acknowledges the pending move clears
\* the marker and returns; the move is requested on a later event.
HandleStateAcknowledgeReturns(s, ev) ==
    IF ~ev.hasState THEN s
    ELSE LET board == Replay(s.initial_fen, ev.moves)
         IN  IF board = ValueError THEN s
             ELSE LET s1 == [s EXCEPT !.board = board]
                  IN  IF ev.status # "started" \/ IsGameOver(board)
                      THEN [s1 EXCEPT !.finished = TRUE]
                      ELSE IF PendingAcknowledged(board, s1.pending_move_ply)
                      THEN [s1 EXCEPT !.pending_move_ply = NoPly]
                      ELSE IF s1.pending_move_ply # NoPly THEN s1
                      ELSE IF s1.is_white = "None" THEN s1
                      ELSE IF Turn(board) # OurColor(s1) THEN s1
                      ELSE [s1 EXCEPT !.pc = "play", !.attempt = 1, !.event = ev]

\* GameSession._handle_state, up to the call of _compute_move; a session that
\* has to think is left at pc "play" with the event it is handling.
HandleState(s, ev) ==
    IF ~ev.hasState THEN s
    ELSE LET board == Replay(s.initial_fen, ev.moves)
         IN  IF board = ValueError THEN s
             ELSE LET s1 == [s EXCEPT !.board = board]
                      s2 == IF PendingAcknowledged(board, s1.pending_move_ply)
                            THEN [s1 EXCEPT !.pending_move_ply = NoPly]
                            ELSE s1
                  IN  IF ev.status # "started" \/ IsGameOver(board)
                      THEN [s1 EXCEPT !.finished = TRUE]
                      ELSE IF s2.pending_move_ply # NoPly THEN s2
                      ELSE IF s2.is_white = "None" THEN s2
                      ELSE IF Turn(board) # OurColor(s2) THEN s2
                      ELSE [s2 EXCEPT !.pc = "play", !.attempt = 1, !.event = ev]

\* GameSession._resign_game: the request is made, its failure is swallowed.
ResignGame(s, outcome) ==
    [s EXCEPT !.calls = Append(@, Call("resign_game", "game", outcome))]

\* Mutant of HandleEvent: a failed resign request leaves the session unfinished.
HandleEventResignMustSucceed(s, ev, resignOutcome) ==
    IF ev.type = "gameFull"
    THEN IF ev.variant \notin allowed_variants
         THEN [ResignGame(s, resignOutcome) EXCEPT !.finished = (resignOutcome = "ok")]
         ELSE HandleState(SetColor([s EXCEPT !.initial_fen = ev.initialFen], ev.names), ev)
    ELSE IF ev.type = "gameState" THEN HandleState(s, ev)
    ELSE s

\* GameSession._handle_event for an event that does not make it raise.
HandleEvent(s, ev, resignOutcome) ==
    IF ev.type = "gameFull"
    THEN IF ev.variant \notin allowed_variants
         THEN [ResignGame(s, resignOutcome) EXCEPT !.finished = TRUE]
         ELSE HandleState(SetColor([s EXCEPT !.initial_fen = ev.initialFen], ev.names), ev)
    ELSE IF ev.type = "gameState" THEN HandleState(s, ev)
    ELSE s

\* Mutant of ShutdownEngine: the handle is dropped only when quit or close
\* succeeded.
ShutdownEngineKeepsHandleOnFailure(s, quitOutcome, closeOutcome) ==
    IF s.engine = "None" THEN s
    ELSE [s EXCEPT
            !.engine = IF quitOutcome = "ok" \/ closeOutcome = "ok" THEN "None" ELSE @,
            !.calls = @ \o (IF quitOutcome = "ok"
                            THEN <<Call("quit", "engine", "ok")>>
                            ELSE <<Call("quit", "engine", "error"),
                                   Call("close", "engine", closeOutcome)>>)]

\* GameSession._shutdown_engine: quit, on failure close, and drop the handle.
ShutdownEngine(s, quitOutcome, closeOutcome) ==
    IF s.engine = "None" THEN s
    ELSE [s EXCEPT
            !.engine = "None",
            !.calls = @ \o (IF quitOutcome = "ok"
                            THEN <<Call("quit", "engine", "ok")>>
                            ELSE <<Call("quit", "engine", "error"),
                                   Call("close", "engine", closeOutcome)>>)]

\* Mutant of EnsureEngine: a subprocess is started also when one is held.
EnsureEngineAlwaysStarts(s, startOutcome) ==
    [s EXCEPT
        !.engine = IF startOutcome = "ok" THEN "proc" ELSE s.engine,
        !.calls = Append(@, Call("popen_uci", "engine", startOutcome))]

\* GameSession._ensure_engine: start the subprocess when the session holds none.
EnsureEngine(s, startOutcome) ==
    IF s.engine # "None" THEN s
    ELSE [s EXCEPT
            !.engine = IF startOutcome = "ok" THEN "proc" ELSE "None",
            !.calls = Append(@, Call("popen_uci", "engine", startOutcome))]

\* The handler returns to the stream loop, which reads the next event.
ReturnToStream(s) == [s EXCEPT !.pc = "read", !.attempt = 0, !.event = NoEvent, !.move = "None"]

\* Mutant of AfterTermination: the dead engine is not shut down, so the second
\* attempt plays on the handle of the first.
AfterTerminationKeepsEngine(s, quitOutcome, closeOutcome) ==
    IF s.attempt = 1 THEN [s EXCEPT !.attempt = 2] ELSE ReturnToStream(s)

\* Mutant of AfterTermination: a second termination ends the session.
AfterTerminationGivesUp(s, quitOutcome, closeOutcome) ==
    LET t == ShutdownEngine(s, quitOutcome, closeOutcome)
    IN  IF s.attempt = 1 THEN [t EXCEPT !.attempt = 2]
        ELSE [ReturnToStream(t) EXCEPT !.finished = TRUE]

\* Mutant of AfterTermination: a terminated subprocess is restarted up to twice,
\* so a request makes three attempts.
AfterTerminationThreeAttempts(s, quitOutcome, closeOutcome) ==
    LET t == ShutdownEngine(s, quitOutcome, closeOutcome)
    IN  IF s.attempt <= 2 THEN [t EXCEPT !.attempt = s.attempt + 1] ELSE ReturnToStream(t)

\* After an EngineTerminatedError: _restart_engine, then the next attempt, or
\* "return None" after the second.
AfterTermination(s, quitOutcome, closeOutcome) ==
    LET t == ShutdownEngine(s, quitOutcome, closeOutcome)
    IN  IF s.attempt = 1 THEN [t EXCEPT !.attempt = 2] ELSE ReturnToStream(t)

\* Results of engine.play: a move, no move, the subprocess terminated, another error.
EngineMoves == {"e2e4", "d2d4"}

\* Mutant of ComputeAttempt: every failure of play is handled as a termination.
ComputeAttemptRestartsOnAnyFailure(s, o) ==
    LET s1 == EnsureEngine(s, o.start)
        started == s.engine # "None" \/ o.start = "ok"
        s2 == [s1 EXCEPT !.calls = Append(@, Call("play", "engine", o.play))]
    IN  IF ~started
        THEN IF o.start = "terminated" THEN AfterTermination(s1, o.quit, o.close)
             ELSE ReturnToStream(s1)
        ELSE IF o.play \in EngineMoves THEN [s2 EXCEPT !.pc = "submit", !.move = o.play]
        ELSE AfterTermination(s2, o.quit, o.close)

\* One attempt of GameSession._compute_move.
ComputeAttempt(s, o) ==
    LET s1 == EnsureEngine(s, o.start)
        started == s.engine # "None" \/ o.start = "ok"
        s2 == [s1 EXCEPT !.calls = Append(@, Call("play", "engine", o.play))]
    IN  IF ~started
        THEN IF o.start = "terminated" THEN AfterTermination(s1, o.quit, o.close)
             ELSE ReturnToStream(s1)
        ELSE IF o.play \in EngineMoves THEN [s2 EXCEPT !.pc = "submit", !.move = o.play]
        ELSE IF o.play = "terminated" THEN AfterTermination(s2, o.quit, o.close)
        ELSE ReturnToStream(s2)

\* Mutant of SubmitMove: only an accepted make_move sets the marker.
SubmitMoveMarksOnSuccessOnly(s, outcome) ==
    LET s1 == [s EXCEPT !.calls = Append(@, Call("make_move", s.move, outcome))]
        s2 == IF outcome = "ok" THEN [s1 EXCEPT !.pending_move_ply = Ply(s.board)] ELSE s1
    IN  ReturnToStream(s2)

\* Mutant of SubmitMove: the marker is set whatever make_move answers.
SubmitMoveMarksAlways(s, outcome) ==
    LET s1 == [s EXCEPT !.calls = Append(@, Call("make_move", s.move, outcome))]
    IN  ReturnToStream([s1 EXCEPT !.pending_move_ply = Ply(s.board)])

\* GameSession._submit_move, and the return of _handle_state after it.
SubmitMove(s, outcome) ==
    LET s1 == [s EXCEPT !.calls = Append(@, Call("make_move", s.move, outcome))]
        s2 == IF outcome \in {"ok", "not your turn"}
              THEN [s1 EXCEPT !.pending_move_ply = Ply(s.board)]
              ELSE s1
    IN  ReturnToStream(s2)

\* The board _handle_event reconstructs from an event, ValueError when it
\* reconstructs none (no state payload, a variant mismatch, a failed replay).
Reconstructed(s, ev) ==
    IF ev.type = "gameFull" /\ ev.variant \in allowed_variants /\ ev.hasState
    THEN Replay(ev.initialFen, ev.moves)
    ELSE IF ev.type = "gameState" /\ ev.hasState THEN Replay(s.initial_fen, ev.moves)
    ELSE ValueError

\* History: an event with a ply beyond the awaited one acknowledges the submission.
Acknowledge(awaited, s, ev) ==
    LET board == Reconstructed(s, ev)
    IN  IF board # ValueError /\ awaited # NoPly /\ Ply(board) > awaited THEN NoPly ELSE awaited

\* Mutant of Leaving: the checks inside the loop look at the stop signal only.
LeavingOnStopOnly(s) == stop_event

\* The check of lines 187, 191 and 200 of run: leave the loop?
Leaving(s) == stop_event \/ s.finished

\* Mutant of AfterStream: a stream failure makes the session leave its loop.
AfterStreamGivesUp(s) == [s EXCEPT !.pc = "finally"]

\* Mutant of AfterStream: the loop sleeps and retries also when it should leave.
AfterStreamAlwaysRetries(s) == [s EXCEPT !.pc = "sleep"]

\* What run does after the stream ended or raised: break, or sleep and retry.
AfterStream(s) == IF Leaving(s) THEN [s EXCEPT !.pc = "finally"] ELSE [s EXCEPT !.pc = "sleep"]

\* run, line 184: the loop condition.
SessionLoop(g) ==
    /\ sess[g].pc = "loop"
    /\ sess' = [sess EXCEPT ![g].pc = IF sess[g].finished \/ stop_event THEN "finally" ELSE "open"]
    /\ UNCHANGED <<config, stop_event, games_lock, active_games, mainVars, hist, limit>>

\* Mutant of SessionOpen: a stream that opens resets the delay to the base.
SessionOpenResetsBackoff(g, opened) ==
    /\ sess[g].pc = "open"
    /\ sess' = [sess EXCEPT ![g] = IF opened
                                   THEN [@ EXCEPT !.pc = "read",
                                                  !.backoff = config.reconnect_base_seconds]
                                   ELSE AfterStream(@)]
    /\ UNCHANGED <<config, stop_event, games_lock, active_games, mainVars, hist, limit>>

\* run, line 186: the stream request is answered (opened) or fails.
SessionOpen(g, opened) ==
    /\ sess[g].pc = "open"
    /\ sess' = [sess EXCEPT ![g] = IF opened THEN [@ EXCEPT !.pc = "read"] ELSE AfterStream(@)]
    /\ UNCHANGED <<config, stop_event, games_lock, active_games, mainVars, hist, limit>>

\* Mutant of SessionEvent: an exception raised by _handle_event is not caught
\* by the loop and ends it.
SessionEventRaiseEscapes(g, ev, resignOutcome) ==
    /\ sess[g].pc = "read"
    /\ LET s == [sess[g] EXCEPT !.calls = <<>>]
       IN  IF Leaving(s)
           THEN /\ sess' = [sess EXCEPT ![g] = [s EXCEPT !.pc = "finally"]]
                /\ hist' = hist
           ELSE IF ev.type = "malformed"
           THEN /\ sess' = [sess EXCEPT ![g] = [s EXCEPT !.pc = "finally"]]
                /\ hist' = hist
           ELSE /\ sess' = [sess EXCEPT ![g] = HandleEvent(s, ev, resignOutcome)]
                /\ hist' = [hist EXCEPT ![g] = Acknowledge(@, s, ev)]
    /\ UNCHANGED <<config, stop_event, games_lock, active_games, mainVars, limit>>

\* run, lines 186-189: the stream yields an event; unless the loop is being
\* left, _handle_event runs up to its first engine request.
SessionEvent(g, ev, resignOutcome) ==
    /\ sess[g].pc = "read"
    /\ LET s == [sess[g] EXCEPT !.calls = <<>>]
       IN  IF Leaving(s)
           THEN /\ sess' = [sess EXCEPT ![g] = [s EXCEPT !.pc = "finally"]]
                /\ hist' = hist
           ELSE IF ev.type = "malformed"
           THEN /\ sess' = [sess EXCEPT ![g] = AfterStream(s)]
                /\ hist' = hist
           ELSE /\ sess' = [sess EXCEPT ![g] = HandleEvent(s, ev, resignOutcome)]
                /\ hist' = [hist EXCEPT ![g] = Acknowledge(@, s, ev)]
    /\ UNCHANGED <<config, stop_event, games_lock, active_games, mainVars, limit>>

\* run, lines 186-198: the stream ends without an event.
SessionStreamEnd(g) ==
    /\ sess[g].pc = "read"
    /\ sess' = [sess EXCEPT ![g] = AfterStream([@ EXCEPT !.calls = <<>>])]
    /\ UNCHANGED <<config, stop_event, games_lock, active_games, mainVars, hist, limit>>

\* run, lines 199-206: reading the stream raises.
SessionStreamError(g) ==
    /\ sess[g].pc = "read"
    /\ sess' = [sess EXCEPT ![g] = AfterStream([@ EXCEPT !.calls = <<>>])]
    /\ UNCHANGED <<config, stop_event, games_lock, active_games, mainVars, hist, limit>>

\* _compute_move: one attempt returns.
SessionPlay(g, o) ==
    /\ sess[g].pc = "play"
    /\ sess' = [sess EXCEPT ![g] = ComputeAttempt(@, o)]
    /\ UNCHANGED <<config, stop_event, games_lock, active_games, mainVars, hist, limit>>

\* _submit_move: the make_move request returns.
SessionSubmit(g, outcome) ==
    /\ sess[g].pc = "submit"
    /\ sess' = [sess EXCEPT ![g] = SubmitMove(@, outcome)]
    /\ hist' = [hist EXCEPT ![g] = IF outcome \in {"ok", "not your turn"}
                                    THEN Ply(sess[g].board) ELSE @]
    /\ UNCHANGED <<config, stop_event, games_lock, active_games, mainVars, limit>>

\* run, lines 208-209: the sleep returns and the delay is doubled up to the cap.
SessionSleep(g) ==
    /\ sess[g].pc = "sleep"
    /\ sess' = [sess EXCEPT ![g].pc = "loop",
                            ![g].backoff = Min(@ * 2, config.max_backoff_seconds)]
    /\ UNCHANGED <<config, stop_event, games_lock, active_games, mainVars, hist, limit>>

\* Mutant of SessionFinally: the finally block does not shut the engine down.
SessionFinallyKeepsEngine(g, quitOutcome, closeOutcome) ==
    /\ sess[g].pc = "finally"
    /\ sess' = [sess EXCEPT ![g] = [@ EXCEPT !.calls = <<>>, !.pc = "exit"]]
    /\ UNCHANGED <<config, stop_event, games_lock, active_games, mainVars, hist, limit>>

\* run, line 211: the finally block shuts the engine down.
SessionFinally(g, quitOutcome, closeOutcome) ==
    /\ sess[g].pc = "finally"
    /\ sess' = [sess EXCEPT ![g] = [ShutdownEngine([@ EXCEPT !.calls = <<>>],
                                                   quitOutcome, closeOutcome)
                                    EXCEPT !.pc = "exit"]]
    /\ UNCHANGED <<config, stop_event, games_lock, active_games, mainVars, hist, limit>>

\* A sequence without the entries equal to x.
Without(seq, x) == SelectSeq(seq, LAMBDA y : y # x)

\* The record of a thread that has ended: nothing reads the object any more, so
\* of its fields only the finished flag, the engine handle and the last call
\* log are kept.
Ended(s) ==
    [NewSession EXCEPT !.pc = "done", !.finished = s.finished, !.engine = s.engine,
                       !.calls = s.calls]

\* Mutant of SessionExit: a session deregisters only while no other session is
\* in an engine request or a submission, as if those were made under the lock.
SessionExitWaitsForPlayers(g) ==
    /\ sess[g].pc = "exit"
    /\ games_lock = "free"
    /\ \A h \in Games \ {g} : sess[h].pc \notin {"play", "submit"}
    /\ active_games' = Without(active_games, g)
    /\ sess' = [sess EXCEPT ![g] = Ended(@)]
    /\ hist' = [hist EXCEPT ![g] = NoPly]
    /\ UNCHANGED <<config, stop_event, games_lock, mainVars, limit>>

\* run, line 212, and _on_game_exit: pop the game id under the lock; the thread ends.
SessionExit(g) ==
    /\ sess[g].pc = "exit"
    /\ games_lock = "free"
    /\ active_games' = Without(active_games, g)
    /\ sess' = [sess EXCEPT ![g] = Ended(@)]
    /\ hist' = [hist EXCEPT ![g] = NoPly]
    /\ UNCHANGED <<config, stop_event, games_lock, mainVars, limit>>

(***************************************************************************)
(* BotService.                                                             *)
(***************************************************************************)
\* Events of the incoming-event stream (stream_incoming_events).  The id is
\* the challenge id or the game id; "" when the payload carries none.
IncomingEvent(type, id, variant) == [type |-> type, id |-> id, variant |-> variant, reason |-> "None"]

NoIncoming == IncomingEvent("none", "", "standard")

ChallengeIds == {"c1", ""}

IncomingEvents(games) ==
    {IncomingEvent("challenge", c, v) : c \in ChallengeIds, v \in {"standard", "chess960"}}
    \cup {IncomingEvent("gameStart", g, "standard") : g \in games \cup {""}}
    \cup {IncomingEvent(t, "", "standard") : t \in {"challengeCanceled", "unknown", "malformed"}}

\* One entry of the manager's call log: a platform request and how it ended.
MCall(op, id, reason, result) == [op |-> op, id |-> id, reason |-> reason, result |-> result]

\* What run_forever does after the stream ended or raised: break to _shutdown,
\* or sleep and retry (lines 446 and 453).
MainAfterStream == IF stop_event THEN "shutdown" ELSE "sleep"

\* run_forever, line 439: the loop condition.
MainLoop ==
    /\ mpc = "loop"
    /\ mpc' = IF stop_event THEN "shutdown" ELSE "open"
    /\ UNCHANGED <<config, stop_event, games_lock, active_games, sess, mev, mbackoff,
                   joining, mcalls, hist, limit>>

\* run_forever, line 441: the stream request is answered (opened) or fails.
MainOpen(opened) ==
    /\ mpc = "open"
    /\ mpc' = IF opened THEN "read" ELSE MainAfterStream
    /\ UNCHANGED <<config, stop_event, games_lock, active_games, sess, mev, mbackoff,
                   joining, mcalls, hist, limit>>

\* Mutant of ChallengeDecision: the capacity test comes before the variant test.
ChallengeDecisionCapacityFirst(ev) ==
    IF ev.id = "" THEN [pc |-> "read", reason |-> "no id"]
    ELSE IF Len(active_games) >= config.max_concurrent_games
         THEN [pc |-> "decline", reason |-> "later"]
    ELSE IF ev.variant \notin allowed_variants THEN [pc |-> "decline", reason |-> "variant"]
    ELSE [pc |-> "accept", reason |-> "accept"]

\* Mutant of ChallengeDecision: a challenge is accepted with the registry at
\* the cap.
ChallengeDecisionAcceptsAtCap(ev) ==
    IF ev.id = "" THEN [pc |-> "read", reason |-> "no id"]
    ELSE IF ev.variant \notin allowed_variants THEN [pc |-> "decline", reason |-> "variant"]
    ELSE IF Len(active_games) > config.max_concurrent_games
         THEN [pc |-> "decline", reason |-> "later"]
    ELSE [pc |-> "accept", reason |-> "accept"]

\* _handle_challenge, up to its platform request: the decision.
ChallengeDecision(ev) ==
    IF ev.id = "" THEN [pc |-> "read", reason |-> "no id"]
    ELSE IF ev.variant \notin allowed_variants THEN [pc |-> "decline", reason |-> "variant"]
    ELSE IF Len(active_games) >= config.max_concurrent_games
         THEN [pc |-> "decline", reason |-> "later"]
    ELSE [pc |-> "accept", reason |-> "accept"]

\* run_forever, lines 441-444, and _handle_incoming_event: the stream yields an
\* event, which is dispatched up to the handler's first platform request or
\* lock acquisition.  mev keeps the event, with the branch taken, until the
\* next event is read.
MainEvent(ev) ==
    /\ mpc = "read"
    /\ mcalls' = <<>>
    /\ IF stop_event
       THEN mpc' = "shutdown" /\ mev' = NoIncoming
       ELSE IF ev.type = "malformed"
       THEN mpc' = MainAfterStream /\ mev' = ev
       ELSE IF ev.type = "challenge"
       THEN LET d == ChallengeDecision(ev)
            IN  mpc' = d.pc /\ mev' = [ev EXCEPT !.reason = d.reason]
       ELSE IF ev.type = "gameStart" /\ ev.id # ""
       THEN mpc' = "gs_acquire" /\ mev' = ev
       ELSE mpc' = "read" /\ mev' = ev
    /\ UNCHANGED <<config, stop_event, games_lock, active_games, sess, mbackoff, joining, hist, limit>>

\* run_forever, lines 446-451: the stream ends without an event.
MainStreamEnd ==
    /\ mpc = "read"
    /\ mpc' = MainAfterStream
    /\ mcalls' = <<>>
    /\ mev' = NoIncoming
    /\ UNCHANGED <<config, stop_event, games_lock, active_games, sess, mbackoff,
                   joining, hist, limit>>

\* run_forever, lines 452-457: reading the stream raises.
MainStreamError ==
    /\ mpc = "read"
    /\ mpc' = MainAfterStream
    /\ mcalls' = <<>>
    /\ mev' = NoIncoming
    /\ UNCHANGED <<config, stop_event, games_lock, active_games, sess, mbackoff,
                   joining, hist, limit>>

\* run_forever, lines 459-460: the sleep returns and the delay is doubled up to the cap.
MainSleep ==
    /\ mpc = "sleep"
    /\ mpc' = "loop"
    /\ mbackoff' = Min(mbackoff * 2, config.max_backoff_seconds)
    /\ UNCHANGED <<config, stop_event, games_lock, active_games, sess, mev, joining,
                   mcalls, hist, limit>>

\* _handle_challenge, lines 510-514: the accept request returns or raises.
MainAccept(outcome) ==
    /\ mpc = "accept"
    /\ mcalls' = Append(mcalls, MCall("accept_challenge", mev.id, "None", outcome))
    /\ mpc' = "read"
    /\ mev' = mev
    /\ UNCHANGED <<config, stop_event, games_lock, active_games, sess, mbackoff, joining, hist, limit>>

\* _decline_challenge, lines 517-519: the first decline request.
MainDecline(outcome) ==
    /\ mpc = "decline"
    /\ mcalls' = Append(mcalls, MCall("decline_challenge", mev.id, mev.reason, outcome))
    /\ IF outcome = "ok" THEN mpc' = "read" /\ mev' = mev
       ELSE IF outcome = "TypeError" THEN mpc' = "decline_retry" /\ mev' = mev
       ELSE IF mev.reason # "generic"
            THEN mpc' = "decline_retry" /\ mev' = [mev EXCEPT !.reason = "generic"]
       ELSE mpc' = "read" /\ mev' = mev
    /\ UNCHANGED <<config, stop_event, games_lock, active_games, sess, mbackoff, joining, hist, limit>>

\* _decline_challenge, lines 520-540: the second decline request (positional
\* after a TypeError, with reason "generic" after another failure).
MainDeclineRetry(outcome) ==
    /\ mpc = "decline_retry"
    /\ mcalls' = Append(mcalls, MCall("decline_challenge", mev.id, mev.reason, outcome))
    /\ mpc' = "read"
    /\ mev' = mev
    /\ UNCHANGED <<config, stop_event, games_lock, active_games, sess, mbackoff, joining, hist, limit>>

\* Is game id g a key of active_games?
Registered(g) == \E i \in 1..Len(active_games) : active_games[i] = g

\* _handle_game_start, line 547: games_lock is acquired.
MainGsAcquire ==
    /\ mpc = "gs_acquire"
    /\ games_lock = "free"
    /\ games_lock' = "main"
    /\ mpc' = "gs_check"
    /\ UNCHANGED <<config, stop_event, active_games, sess, mev, mbackoff, joining, mcalls, hist, limit>>

\* Mutant of GameStartDecision: the capacity test lets one game too many in.
GameStartDecisionOffByOne(g) ==
    IF Registered(g) THEN "duplicate"
    ELSE IF Len(active_games) > config.max_concurrent_games THEN "resign"
    ELSE "insert"

\* Mutant of GameStartDecision: the capacity test comes before the duplicate test.
GameStartDecisionCapacityFirst(g) ==
    IF Len(active_games) >= config.max_concurrent_games THEN "resign"
    ELSE IF Registered(g) THEN "duplicate"
    ELSE "insert"

\* Mutant of GameStartDecision: the duplicate test is missing.
GameStartDecisionNoDuplicateTest(g) ==
    IF Len(active_games) >= config.max_concurrent_games THEN "resign" ELSE "insert"

\* _handle_game_start, lines 548-551: duplicate, at capacity, or room for a session.
GameStartDecision(g) ==
    IF Registered(g) THEN "duplicate"
    ELSE IF Len(active_games) >= config.max_concurrent_games THEN "resign"
    ELSE "insert"

\* _handle_game_start, lines 548-560: the checks made under the lock.
MainGsCheck ==
    /\ mpc = "gs_check"
    /\ LET d == GameStartDecision(mev.id)
       IN  /\ mev' = [mev EXCEPT !.reason = d]
           /\ IF d = "duplicate" THEN mpc' = "read" /\ games_lock' = "free"
              ELSE IF d = "resign" THEN mpc' = "gs_resign" /\ games_lock' = games_lock
              ELSE mpc' = "gs_insert" /\ games_lock' = games_lock
    /\ UNCHANGED <<config, stop_event, active_games, sess, mbackoff, joining, mcalls, hist, limit>>

\* Mutant of MainGsResign: the return after the resign request is missing, so
\* the handler goes on to create the session.
MainGsResignFallsThrough(outcome) ==
    /\ mpc = "gs_resign"
    /\ mcalls' = Append(mcalls, MCall("resign_game", mev.id, "None", outcome))
    /\ mpc' = "gs_insert"
    /\ UNCHANGED <<config, stop_event, games_lock, active_games, sess, mev, mbackoff,
                   joining, hist, limit>>

\* _handle_game_start, lines 556-560: the resign request for the overflow game
\* returns or raises, and the lock is released.
MainGsResign(outcome) ==
    /\ mpc = "gs_resign"
    /\ mcalls' = Append(mcalls, MCall("resign_game", mev.id, "None", outcome))
    /\ games_lock' = "free"
    /\ mpc' = "read"
    /\ mev' = mev
    /\ UNCHANGED <<config, stop_event, active_games, sess, mbackoff, joining, hist, limit>>

\* _handle_game_start, lines 562-570: the session is constructed and registered,
\* and the lock is released.
MainGsInsert ==
    /\ mpc = "gs_insert"
    /\ sess' = [sess EXCEPT ![mev.id] = NewSession]
    /\ hist' = [hist EXCEPT ![mev.id] = NoPly]
    /\ active_games' = Append(active_games, mev.id)
    /\ games_lock' = "free"
    /\ mpc' = "gs_start"
    /\ UNCHANGED <<config, stop_event, mev, mbackoff, joining, mcalls, limit>>

\* _handle_game_start, line 573: session.start(); the thread begins run (line 181).
MainGsStart ==
    /\ mpc = "gs_start"
    /\ sess' = [sess EXCEPT ![mev.id].pc = "loop",
                            ![mev.id].backoff = config.reconnect_base_seconds]
    /\ mpc' = "read"
    /\ mev' = mev
    /\ UNCHANGED <<config, stop_event, games_lock, active_games, mbackoff, joining,
                   mcalls, hist, limit>>

\* _shutdown, line 584: the stop signal is set.
MainShutdown ==
    /\ mpc = "shutdown"
    /\ stop_event' = TRUE
    /\ mpc' = "snapshot"
    /\ UNCHANGED <<config, games_lock, active_games, sess, mev, mbackoff, joining,
                   mcalls, hist, limit>>

\* _shutdown, lines 585-586: the registered sessions are listed under the lock.
MainSnapshot ==
    /\ mpc = "snapshot"
    /\ games_lock = "free"
    /\ joining' = active_games
    /\ mpc' = IF active_games = <<>> THEN "done" ELSE "join"
    /\ UNCHANGED <<config, stop_event, games_lock, active_games, sess, mev, mbackoff,
                   mcalls, hist, limit>>

\* Mutant of JoinReturns: join is called without a timeout.
JoinReturnsWithoutTimeout(g, timedOut) == sess[g].pc = "done"

\* Can session.join(timeout=10.0) return?  The thread ended, or the timeout ran out.
JoinReturns(g, timedOut) == sess[g].pc = "done" \/ timedOut

\* _shutdown, lines 591-594: one join returns; after the last, shutdown is complete.
MainJoin(timedOut) ==
    /\ mpc = "join"
    /\ JoinReturns(Head(joining), timedOut)
    /\ joining' = Tail(joining)
    /\ mpc' = IF Tail(joining) = <<>> THEN "done" ELSE "join"
    /\ UNCHANGED <<config, stop_event, games_lock, active_games, sess, mev, mbackoff,
                   mcalls, hist, limit>>

\* _install_signal_handlers: SIGINT or SIGTERM sets the stop signal.
Signal ==
    /\ ~stop_event
    /\ mpc # "done"
    /\ stop_event' = TRUE
    /\ UNCHANGED <<config, games_lock, active_games, sess, mainVars, hist, limit>>

(***************************************************************************)
(* The time budget: _to_millis and GameSession._build_limit.  Times are in *)
(* milliseconds; the clocks and increments of a Limit, which the code      *)
(* holds in seconds (milliseconds / 1000.0), are kept in milliseconds.     *)
(***************************************************************************)
\* Largest remaining time, increment and overhead margin of the time-budget
\* specification.
MaxClock == 3
MaxInc == 1
MaxOverhead == 2

\* A field of the state dict: missing (None) or an integer.
Missing == [kind |-> "None", ms |-> 0]
Millis(n) == [kind |-> "int", ms |-> n]

Max(a, b) == IF a >= b THEN a ELSE b

\* _to_millis: None gives 0, an integer is floored at 0.
ToMillis(value) == IF value.kind = "None" THEN 0 ELSE Max(0, value.ms)

\* chess.engine.Limit: the fields _build_limit sets; -1 stands for a field
\* left at None.
Limit(time, white_clock, black_clock, white_inc, black_inc) ==
    [time |-> time, white_clock |-> white_clock, black_clock |-> black_clock,
     white_inc |-> white_inc, black_inc |-> black_inc]

\* GameSession._build_limit
BuildLimit(state) ==
    LET wtime_ms == Max(0, ToMillis(state.wtime) - config.move_overhead_ms)
        btime_ms == Max(0, ToMillis(state.btime) - config.move_overhead_ms)
        winc_ms == ToMillis(state.winc)
        binc_ms == ToMillis(state.binc)
    IN  IF wtime_ms > 0 /\ btime_ms > 0
        THEN Limit(-1, wtime_ms, btime_ms, winc_ms, binc_ms)
        ELSE Limit(config.fallback_move_time_seconds, -1, -1, -1, -1)

\* The clock fields of a state dict.
ClockState(wtime, btime, winc, binc) ==
    [wtime |-> wtime, btime |-> btime, winc |-> winc, binc |-> binc]

\* No Limit has been built.
NoLimit == [state |-> ClockState(Missing, Missing, Missing, Missing),
            result |-> Limit(-1, -1, -1, -1, -1), built |-> FALSE]

(***************************************************************************)
(* Specifications.                                                         *)
(***************************************************************************)
Config(cap, base, max) ==
    [max_concurrent_games |-> cap, reconnect_base_seconds |-> base, max_backoff_seconds |-> max]

\* The configurations of the manager specification: every cap up to MaxCap.
ManagerConfigs == {Config(cap, 1, 1) : cap \in 1..MaxCap}

\* Outcomes of one attempt of _compute_move: of popen_uci (when the engine has to
\* be started), of play, and of quit and close (when the engine is shut down).
AttemptOutcomes(starts, plays, quits, closes) ==
    [start : starts, play : plays, quit : quits, close : closes]

AllAttemptOutcomes ==
    AttemptOutcomes({"ok", "terminated", "error"},
                    EngineMoves \cup {"none", "terminated", "error"},
                    {"ok", "error"}, {"ok", "error"})

MakeMoveOutcomes == {"ok", "not your turn", "response error", "error"}

\* The state after BotService.__init__ and the login of run_forever.
InitWith(configs) ==
    /\ config \in configs
    /\ stop_event = FALSE
    /\ games_lock = "free"
    /\ active_games = <<>>
    /\ sess = [g \in Games |-> NoSession]
    /\ mpc = "loop"
    /\ mev = NoIncoming
    /\ mbackoff = config.reconnect_base_seconds
    /\ joining = <<>>
    /\ mcalls = <<>>
    /\ hist = [g \in Games |-> NoPly]
    /\ limit = NoLimit

Init == InitWith(ManagerConfigs)

\* The steps of the session thread of game g.
SessionStep(g, events, attempts, submits, quits) ==
    \/ SessionLoop(g)
    \/ \E opened \in BOOLEAN : SessionOpen(g, opened)
    \/ \E ev \in events, r \in quits : SessionEvent(g, ev, r)
    \/ SessionStreamEnd(g)
    \/ SessionStreamError(g)
    \/ \E o \in attempts : SessionPlay(g, o)
    \/ \E outcome \in submits : SessionSubmit(g, outcome)
    \/ SessionSleep(g)
    \/ \E q \in quits, c \in quits : SessionFinally(g, q, c)
    \/ SessionExit(g)

\* run_forever's stream loop, on the incoming events given.
ManagerLoopStep(incoming) ==
    \/ MainLoop
    \/ \E opened \in BOOLEAN : MainOpen(opened)
    \/ \E ev \in incoming : MainEvent(ev)
    \/ MainStreamEnd
    \/ MainStreamError
    \/ MainSleep

\* The platform requests of _handle_challenge and _decline_challenge.
ChallengeStep ==
    \/ \E outcome \in {"ok", "error"} : MainAccept(outcome)
    \/ \E outcome \in {"ok", "TypeError", "error"} : MainDecline(outcome)
    \/ \E outcome \in {"ok", "error"} : MainDeclineRetry(outcome)

\* _handle_game_start.
GameStartStep ==
    \/ MainGsAcquire
    \/ MainGsCheck
    \/ \E outcome \in {"ok", "error"} : MainGsResign(outcome)
    \/ MainGsInsert
    \/ MainGsStart

\* _shutdown.
ShutdownStep ==
    \/ MainShutdown
    \/ MainSnapshot
    \/ \E timedOut \in BOOLEAN : MainJoin(timedOut)

\* The events the manager specification delivers to its sessions: the game
\* starts with the bot as white and to move, or the game is over.
CoarseGameEvents ==
    {GameEvent("gameFull", "standard", "startpos", "white", TRUE, <<>>, "started"),
     GameEvent("gameState", "standard", "startpos", "neither", TRUE, <<>>, "mate")}

CoarseAttemptOutcomes == AttemptOutcomes({"ok"}, {"e2e4", "none"}, {"ok"}, {"ok"})

\* The incoming events of the manager specification: game starts, with and
\* without a game id, and an event that makes the handler raise.
GameStartEvents ==
    {ev \in IncomingEvents(Games) : ev.type \in {"gameStart", "malformed"}}

\* The manager with its sessions, on the coarse event alphabet.
Next ==
    \/ ManagerLoopStep(GameStartEvents)
    \/ GameStartStep
    \/ ShutdownStep
    \/ Signal
    \/ \E g \in Games : SessionStep(g, CoarseGameEvents, CoarseAttemptOutcomes, {"ok"}, {"ok"})

Spec == Init /\ [][Next]_vars

\* One running session, on the full event alphabet: the state the manager
\* reaches by registering and starting a session for the one game, after which
\* the incoming stream stays silent.
InitSession ==
    /\ config = Config(1, 1, 1)
    /\ stop_event = FALSE
    /\ games_lock = "free"
    /\ active_games = <<"g1">>
    /\ sess = [g \in Games |-> IF g = "g1"
                               THEN [NewSession EXCEPT !.pc = "loop",
                                                       !.backoff = config.reconnect_base_seconds]
                               ELSE NoSession]
    /\ mpc = "read"
    /\ mev = [IncomingEvent("gameStart", "g1", "standard") EXCEPT !.reason = "insert"]
    /\ mbackoff = config.reconnect_base_seconds
    /\ joining = <<>>
    /\ mcalls = <<>>
    /\ hist = [g \in Games |-> NoPly]
    /\ limit = NoLimit

NextSession ==
    \/ Signal
    \/ \E g \in SoloGames :
          SessionStep(g, AllGameEvents, AllAttemptOutcomes, MakeMoveOutcomes, {"ok", "error"})

SpecSession == InitSession /\ [][NextSession]_vars

(***************************************************************************)
(* Properties.                                                             *)
(***************************************************************************)
\* The manager is inside the critical section of _handle_game_start.
InGameStartSection == mpc \in {"gs_check", "gs_resign", "gs_insert"}

\* C1: the registry never holds more than max_concurrent_games sessions, and
\* the manager holds games_lock from the capacity check of a game start to
\* the insertion of the new session, so that no session exit (which needs the
\* lock) falls between the two.
C1_CapacityInvariant ==
    /\ Len(active_games) <= config.max_concurrent_games
    /\ InGameStartSection => games_lock = "main"
    /\ \A g \in Games : sess[g].pc = "exit" /\ InGameStartSection => Registered(g)

\* C1 witness: a full registry while a game start for an unregistered game is
\* being checked and a session of the registry is waiting to deregister.
C1_Witness ==
    /\ Len(active_games) = config.max_concurrent_games
    /\ mpc = "gs_check"
    /\ ~Registered(mev.id)
    /\ \E g \in Games : sess[g].pc = "exit" /\ Registered(g)

\* C2: while a submission that set the pending marker at ply k has not been
\* followed by a handled event of reconstructed ply greater than k (hist[g] = k),
\* the session neither requests a move from the engine nor calls make_move,
\* whatever events it handles in between.
C2_PendingMoveGuard ==
    \A g \in Games : sess[g].pc \in {"play", "submit"} => hist[g] = NoPly

\* C2 witness: as white on the empty move list the move was submitted, and an
\* event handled after it (a duplicate, a chat line) caused no request.
C2_Witness ==
    LET s == sess["g1"]
    IN  /\ s.pc = "read" /\ ~s.finished
        /\ s.is_white = "True" /\ s.board = NewBoard("startpos")
        /\ s.pending_move_ply = 0 /\ hist["g1"] = 0
        /\ s.calls = <<>>

\* C3: whenever a session is about to call make_move, the side to move on the
\* board replayed from the event in hand is the session's colour, the event's
\* status is "started" and the pending marker is unset.
C3_SubmitOnlyOnOurTurn ==
    \A g \in Games :
        sess[g].pc = "submit" =>
            LET s == sess[g]
            IN  /\ s.board = Replay(s.initial_fen, s.event.moves)
                /\ \/ s.is_white = "True" /\ Ply(s.board) % 2 = 0
                   \/ s.is_white = "False" /\ Ply(s.board) % 2 = 1
                /\ s.event.status = "started"
                /\ s.pending_move_ply = NoPly

\* C3 witness: the session, playing black, is about to submit a reply.
C3_Witness ==
    LET s == sess["g1"]
    IN  s.pc = "submit" /\ s.is_white = "False" /\ s.board.stack = <<"m">>

\* The manager leaves the critical section of a game start that found the
\* registry full and the game id unregistered.
OverflowReturn == mpc = "gs_resign" /\ mpc' # "gs_resign"

\* A session object comes to exist for game g.
SessionCreated(g) == sess[g].pc \in {"absent", "done"} /\ sess'[g].pc \notin {"absent", "done"}

\* C4: a game start for an unregistered game id that finds the registry full
\* goes to the resign request and not to the insertion; that request names the
\* game id of the event and is the only platform request of the handler; when
\* it returns, with or without an error, the registry and every session are as
\* they were and the manager is back at the stream; and a session is created
\* only by the insertion step of a game start that found room (nothing queues
\* the overflow game for a later creation).
C4_OverflowResigned ==
    /\ [][mpc = "gs_check" /\ ~Registered(mev.id)
              /\ Len(active_games) >= config.max_concurrent_games
            => mpc' \in {"gs_check", "gs_resign"} /\ active_games' = active_games]_vars
    /\ [][OverflowReturn
            => /\ \E o \in {"ok", "error"} :
                     mcalls' = <<MCall("resign_game", mev.id, "None", o)>>
               /\ mpc' = "read"
               /\ active_games' = active_games
               /\ sess' = sess
               /\ ~Registered(mev.id)]_vars
    /\ [][\A g \in Games :
            SessionCreated(g)
              => /\ mpc = "gs_insert" /\ mev.id = g /\ mev.reason = "insert"
                 /\ Len(active_games) < config.max_concurrent_games]_vars

\* C4 witness: the resign request of an overflow game start failed, the
\* manager is back at the stream and the registry is still full, without the game.
C4_Witness ==
    /\ mpc = "read"
    /\ mev.type = "gameStart" /\ mev.reason = "resign"
    /\ mcalls = <<MCall("resign_game", mev.id, "None", "error")>>
    /\ Len(active_games) = config.max_concurrent_games
    /\ ~Registered(mev.id)
    /\ sess[mev.id].pc \in {"absent", "done"}

\* C5: a game start for a game id that is registered makes the manager return
\* to the stream with the registry, every session and the call log as they
\* were (no request was made) and the lock released; the manager never reaches
\* the resign request or the insertion with a registered game id, at capacity
\* or not.
C5_DuplicateStartNoOp ==
    /\ [][mpc = "gs_check" /\ Registered(mev.id) /\ mpc' # "gs_check"
            => /\ mpc' = "read"
               /\ games_lock' = "free"
               /\ active_games' = active_games
               /\ sess' = sess
               /\ mcalls' = <<>>
               /\ hist' = hist]_vars
    /\ [](mpc \in {"gs_resign", "gs_insert"} => ~Registered(mev.id))

\* C5 witness: a duplicate game start was handled while the registry was full.
C5_Witness ==
    /\ mpc = "read"
    /\ mev.type = "gameStart" /\ mev.reason = "duplicate"
    /\ Registered(mev.id)
    /\ Len(active_games) = config.max_concurrent_games
    /\ mcalls = <<>>

\* The session thread of game g is running (started and not yet ended).
Running(g) == sess[g].pc \notin {"absent", "new", "done"}

\* The steps of a session of the manager specification.
CoarseSessionStep(g) ==
    SessionStep(g, CoarseGameEvents, CoarseAttemptOutcomes, {"ok"}, {"ok"})

\* The manager specification under the scheduling the threads get: every
\* blocking call of a session returns and the session thread is scheduled; a
\* session waiting for games_lock gets it when it is free again and again; the
\* manager thread completes a game start it has begun.
FairSpec ==
    /\ Spec
    /\ \A g \in Games : WF_vars(CoarseSessionStep(g)) /\ SF_vars(SessionExit(g))
    /\ WF_vars(GameStartStep)

LoopBlocking == {"open", "read", "sleep"}

\* The positions inside an event handler: the engine request and the move
\* submission of a session, the platform calls of the manager.
HandlerPositions ==
    {"play", "submit", "accept", "decline", "decline_retry",
     "gs_acquire", "gs_check", "gs_resign", "gs_insert", "gs_start"}

\* A loop at position from starts a blocking call by moving to position to: a
\* stream open, a stream read or a sleep it was not in, or a handler entered
\* from the loop. An opened stream that goes on to its first read is still in
\* the stream read it was in, and a handler that goes on is still the handler
\* call it was in.
StartsBlocking(from, to) ==
    \/ to \in LoopBlocking /\ to # from /\ ~(from = "open" /\ to = "read")
    \/ to \in HandlerPositions /\ from \notin HandlerPositions

\* C7: once the stop signal is set, no subscription loop (a session's, the
\* manager's) starts a stream open, a stream read or a backoff sleep: the
\* blocking call it is in returns and the loop is left.
C7_PromptExit ==
    [][stop_event
         => /\ \A g \in Games : ~StartsBlocking(sess[g].pc, sess'[g].pc)
            /\ ~StartsBlocking(mpc, mpc')]_vars

\* The manager specification with a manager thread that is scheduled during
\* shutdown, and no assumption on the sessions.
FairShutdownSpec == Spec /\ WF_vars(ShutdownStep)

\* C8: the stop signal is set before the manager waits on a session; the
\* sessions waited on are those registered when the registry is listed, each
\* waited on once; and a shutdown that has begun completes, whether or not the
\* sessions end.
C8_ShutdownCompletes ==
    /\ [](mpc \in {"snapshot", "join", "done"} => stop_event)
    /\ [][mpc = "snapshot" /\ mpc' # "snapshot" => joining' = active_games]_vars
    /\ [][mpc = "join" /\ joining' # joining => joining' = Tail(joining)]_vars
    /\ (mpc = "shutdown") ~> (mpc = "done")

\* C8 witness: shutdown is complete while a session it waited on is still
\* running and registered.
C8_Witness ==
    /\ mpc = "done"
    /\ \E g \in Games : Registered(g) /\ Running(g)

\* The call logs _shutdown_engine can leave for an engine it held.
ShutdownLogs ==
    {<<Call("quit", "engine", "ok")>>}
    \cup {<<Call("quit", "engine", "error"), Call("close", "engine", c)>> : c \in {"ok", "error"}}

\* The subprocess terminated during a play request of the event being handled.
PlayTerminated(calls) ==
    \E i \in 1..Len(calls) : calls[i] = Call("play", "engine", "terminated")

\* C9: when the session is about to submit after a play request of the same
\* event ended with the subprocess terminated, the requests of the event were:
\* the lazy start if no engine was held, the failed play, one shutdown of the
\* dead subprocess (quit, and close if quit failed), one start of a new
\* subprocess, and the play that returned the move in hand; the next step of
\* the session calls make_move with that move, and its acceptance sets the
\* marker to the ply of the board.
C9_OneRestartThenSubmit ==
    /\ [](\A g \in Games :
            sess[g].pc = "submit" /\ PlayTerminated(sess[g].calls)
              => /\ sess[g].attempt = 2 /\ sess[g].engine = "proc"
                 /\ sess[g].move \in EngineMoves
                 /\ \E first \in {<<>>, <<Call("popen_uci", "engine", "ok")>>},
                       down \in ShutdownLogs :
                       sess[g].calls =
                           first \o <<Call("play", "engine", "terminated")>> \o down
                           \o <<Call("popen_uci", "engine", "ok"),
                                Call("play", "engine", sess[g].move)>>)
    /\ [][\A g \in Games :
            sess[g].pc = "submit" /\ sess'[g] # sess[g]
              => \E o \in MakeMoveOutcomes :
                    /\ sess'[g].calls = Append(sess[g].calls, Call("make_move", sess[g].move, o))
                    /\ sess'[g].pc = "read"
                    /\ o = "ok" => sess'[g].pending_move_ply = Ply(sess[g].board)]_vars

\* C9 witness: the engine died on the first play, quit failed, the new
\* subprocess returned d2d4 and the move was submitted for the current ply.
C9_Witness ==
    LET s == sess["g1"]
    IN  /\ s.pc = "read"
        /\ s.calls = <<Call("popen_uci", "engine", "ok"), Call("play", "engine", "terminated"),
                       Call("quit", "engine", "error"), Call("close", "engine", "ok"),
                       Call("popen_uci", "engine", "ok"), Call("play", "engine", "d2d4"),
                       Call("make_move", "d2d4", "ok")>>
        /\ s.pending_move_ply = Ply(s.board)

\* Both attempts of the move request of the last event ended with the
\* subprocess terminated (while starting or while playing).
TwiceTerminated(calls) ==
    Cardinality({i \in 1..Len(calls) :
                    calls[i].op \in {"popen_uci", "play"} /\ calls[i].result = "terminated"}) = 2

\* The events that restate the position the session's board is in.
SamePositionEvents(s) ==
    {ev \in AllGameEvents :
        /\ ev.type = "gameState" /\ ev.hasState /\ ev.status = "started"
        /\ Replay(s.initial_fen, ev.moves) = s.board}

\* C10: after a move request whose two attempts both ended with the subprocess
\* terminated, the handler has returned to the stream loop (no exception), no
\* make_move call was made, the marker is unset, the session is not finished,
\* still registered and holds no engine; and handling an event that restates
\* the position starts a new move request.
C10_StalledTurn ==
    \A g \in Games :
        TwiceTerminated(sess[g].calls)
          => LET s == sess[g]
             IN  /\ s.pc = "read"
                 /\ \A i \in 1..Len(s.calls) : s.calls[i].op # "make_move"
                 /\ s.pending_move_ply = NoPly
                 /\ ~s.finished
                 /\ Registered(g)
                 /\ s.engine = "None"
                 /\ SamePositionEvents(s) # {}
                 /\ \A ev \in SamePositionEvents(s) :
                        LET t == HandleEvent([s EXCEPT !.calls = <<>>], ev, "ok")
                        IN  t.pc = "play" /\ t.attempt = 1 /\ t.board = s.board

\* C10 witness: both plays of a request ended with the subprocess terminated.
C10_Witness ==
    LET s == sess["g1"]
    IN  /\ s.pc = "read"
        /\ s.calls = <<Call("popen_uci", "engine", "ok"), Call("play", "engine", "terminated"),
                       Call("quit", "engine", "ok"),
                       Call("popen_uci", "engine", "ok"), Call("play", "engine", "terminated"),
                       Call("quit", "engine", "ok")>>
        /\ s.is_white = "False" /\ s.board.stack = <<"m">>

\* The gameFull events whose variant key is outside allowed_variants.
VariantMismatchEvents ==
    {ev \in AllGameEvents : ev.type = "gameFull" /\ ev.variant \notin allowed_variants}

\* C11: handling a gameFull whose variant key is not accepted makes exactly one
\* resign_game request and sets finished, whether the request succeeds or
\* fails, and changes nothing else (the embedded state is not processed: board,
\* initial position, colour, marker and engine handle stay); a finished session
\* is never in an engine request or a move submission, stays finished and
\* starts no engine subprocess.
C11_VariantMismatchResigns ==
    /\ [](\A g \in Games :
            sess[g].pc = "read" /\ ~Leaving(sess[g])
              => \A ev \in VariantMismatchEvents, r \in {"ok", "error"} :
                    LET s == [sess[g] EXCEPT !.calls = <<>>]
                    IN  HandleEvent(s, ev, r) =
                            [s EXCEPT !.calls = <<Call("resign_game", "game", r)>>,
                                      !.finished = TRUE])
    /\ [](\A g \in Games : sess[g].finished => sess[g].pc \notin {"play", "submit"})
    /\ [][\A g \in Games :
            sess[g].finished
              => /\ sess'[g].finished
                 /\ sess'[g].engine \in {"None", sess[g].engine}
                 /\ \A i \in 1..Len(sess'[g].calls) :
                        sess'[g].calls[i].op \notin {"popen_uci", "play", "make_move"}]_vars

\* C11 witness: a session playing black on a two-move board, holding no
\* engine, has handled a chess960 gameFull: the resign request failed, the
\* session is finished, and board and colour are those of before.
C11_Witness ==
    LET s == sess["g1"]
    IN  /\ s.pc = "read" /\ s.finished
        /\ s.calls = <<Call("resign_game", "game", "error")>>
        /\ s.is_white = "False" /\ s.board.stack = <<"m", "m">>
        /\ s.engine = "None"

\* A move list the chess rules accept: every token is a legal move, and a
\* game-ending move is the last one.
ValidMoveList(moves) ==
    \A i \in 1..Len(moves) : moves[i] # "x" /\ (moves[i] = "k" => i = Len(moves))

\* The state-carrying events of accepted variant with a valid move list.
ValidStateEvents ==
    {ev \in AllGameEvents :
        /\ ev.type \in {"gameFull", "gameState"} /\ ev.variant \in allowed_variants
        /\ ev.hasState /\ ValidMoveList(ev.moves)}

\* The position reached from the initial position fen by the complete move list.
PositionAfter(fen, moves) == [fen |-> fen, stack |-> moves]

\* C12: in every state in which the session handles events, whatever board the
\* earlier events left, handling an event with a valid move list leaves the
\* board at the position reached by the event's complete move list from the
\* initial position (the event's for a gameFull, the session's for a
\* gameState), and handling the same event once more leaves the same board;
\* a session that requests or submits a move does so on that board.
C12_IdempotentReconstruction ==
    /\ \A g \in Games :
          sess[g].pc = "read" /\ ~Leaving(sess[g])
            => \A ev \in ValidStateEvents :
                  LET s == [sess[g] EXCEPT !.calls = <<>>]
                      once == HandleEvent(s, ev, "ok")
                      twice == HandleEvent(ReturnToStream(once), ev, "ok")
                      fen == IF ev.type = "gameFull" THEN ev.initialFen ELSE s.initial_fen
                  IN  /\ once.board = PositionAfter(fen, ev.moves)
                      /\ twice.board = once.board
    /\ \A g \in Games :
          sess[g].pc \in {"play", "submit"}
            => sess[g].board = PositionAfter(sess[g].initial_fen, sess[g].event.moves)

\* C12 witness: a session that played on an earlier, shorter board (it holds
\* an engine) is thinking on the board of a two-move list.
C12_Witness ==
    LET s == sess["g1"]
    IN  /\ s.pc = "play" /\ s.engine = "proc" /\ s.attempt = 1
        /\ s.event.moves = <<"m", "m">>
        /\ s.board = PositionAfter("startpos", <<"m", "m">>)

\* The state-carrying events of accepted variant whose move list fails to replay.
FailingReplayEvents ==
    {ev \in AllGameEvents :
        /\ ev.type \in {"gameFull", "gameState"} /\ ev.variant \in allowed_variants
        /\ ev.hasState /\ ~ValidMoveList(ev.moves)}

\* C13: in every state in which the session handles events, handling a
\* state-carrying event whose move list fails to replay leaves the session as
\* it was: board, initial position, colour, marker and finished flag are
\* unchanged, the handler returns to the stream, and no request is logged.
C13_FailedReplayDropsEvent ==
    \A g \in Games :
        sess[g].pc = "read" /\ ~Leaving(sess[g])
          => \A ev \in FailingReplayEvents :
                LET s == [sess[g] EXCEPT !.calls = <<>>]
                IN  HandleEvent(s, ev, "ok") = s

(***************************************************************************)
(* The subscription loops under failing streams, for the reconnect delays  *)
(* _load_config accepts.  Delays are in whole seconds.                     *)
(***************************************************************************)
\* Largest reconnect_base_seconds and max_backoff_seconds of the backoff
\* specification.
MaxBase == 3
MaxBackoff == 4

\* _load_config: reconnect_base_seconds has the minimum 0.1 and
\* max_backoff_seconds the minimum 1.0; the two are not compared.
BackoffConfigs == {Config(1, base, max) : base \in 1..MaxBase, max \in 1..MaxBackoff}

\* Incoming events that need no platform request and no lock.
QuietIncomingEvents ==
    {ev \in IncomingEvents({}) : ev.type \in {"challengeCanceled", "unknown", "malformed"}}

\* The manager in its stream loop and one started session, for every
\* configuration of BackoffConfigs.
InitBackoff ==
    /\ config \in BackoffConfigs
    /\ stop_event = FALSE
    /\ games_lock = "free"
    /\ active_games = <<"g1">>
    /\ sess = [g \in Games |-> IF g = "g1"
                               THEN [NewSession EXCEPT !.pc = "loop",
                                                       !.backoff = config.reconnect_base_seconds]
                               ELSE NoSession]
    /\ mpc = "loop"
    /\ mev = NoIncoming
    /\ mbackoff = config.reconnect_base_seconds
    /\ joining = <<>>
    /\ mcalls = <<>>
    /\ hist = [g \in Games |-> NoPly]
    /\ limit = NoLimit

NextBackoff ==
    \/ ManagerLoopStep(QuietIncomingEvents)
    \/ Signal
    \/ \E g \in SoloGames :
          SessionStep(g, CoarseGameEvents, CoarseAttemptOutcomes, {"ok"}, {"ok"})

SpecBackoff == InitBackoff /\ [][NextBackoff]_vars

\* C14: every delay a subscription loop sleeps (the delay held when a sleep
\* returns) is at most max_backoff_seconds, and the delay held after the
\* sleep, which is the next one slept, is not smaller.
C14_BackoffMonotoneBounded ==
    [][/\ \A g \in Games :
             sess[g].pc = "sleep" /\ sess'[g].pc = "loop"
               => /\ sess[g].backoff <= config.max_backoff_seconds
                  /\ sess'[g].backoff >= sess[g].backoff
       /\ mpc = "sleep" /\ mpc' = "loop"
            => /\ mbackoff <= config.max_backoff_seconds
               /\ mbackoff' >= mbackoff]_vars

\* C15: during the lifetime of a subscription loop its delay changes only in
\* the step in which a sleep returns, and then to the doubled delay capped at
\* max_backoff_seconds; opening a stream, reading and handling events, engine
\* requests and submissions leave it as it is.
C15_BackoffNeverReset ==
    [][/\ \A g \in Games :
             sess[g].pc \notin {"absent", "new"} /\ sess'[g].pc # "done"
             /\ sess'[g].backoff # sess[g].backoff
               => /\ sess[g].pc = "sleep" /\ sess'[g].pc = "loop"
                  /\ sess'[g].backoff = Min(2 * sess[g].backoff, config.max_backoff_seconds)
       /\ mbackoff' # mbackoff
            => /\ mpc = "sleep" /\ mpc' = "loop"
               /\ mbackoff' = Min(2 * mbackoff, config.max_backoff_seconds)]_vars

\* C15 witness: after two sleeps the session's delay is four times the base,
\* and the session, on a stream it opened after them, is submitting a move;
\* the manager, after two sleeps as well, has handled an event.
C15_Witness ==
    /\ config.reconnect_base_seconds = 1
    /\ sess["g1"].backoff = 4 /\ sess["g1"].pc = "submit"
    /\ mbackoff = 4 /\ mpc = "read" /\ mev.type = "unknown"

\* The steps by which a loop gets from its backoff sleep to the next stream open.
SessionRetryStep(g) == SessionSleep(g) \/ SessionLoop(g)
MainRetryStep == MainSleep \/ MainLoop

\* The backoff specification with sleeps that return and loops that go on.
FairBackoffSpec ==
    /\ SpecBackoff
    /\ \A g \in SoloGames : WF_vars(SessionRetryStep(g))
    /\ WF_vars(MainRetryStep)

\* The positions of a session after it left its loop.
SessionLeft == {"finally", "exit", "done"}

\* C16: a session that is not finished, with the stop signal unset, goes from
\* a failed stream open, a failed stream read, a raising handler or a stream
\* end to the backoff sleep, from the sleep to the loop condition and from
\* there to another stream open; it leaves its loop, and is deregistered,
\* only when finished or stopped.  The incoming-event loop does the same and
\* reaches _shutdown only with the stop signal set.  With sleeps that return,
\* every sleep is followed by a stream open unless the stop signal is set.
C16_FailuresAreRetried ==
    /\ [][\A g \in Games :
            ~stop_event /\ ~sess[g].finished /\ sess'[g] # sess[g]
              => /\ sess[g].pc = "open" => sess'[g].pc \in {"read", "sleep"}
                 /\ sess[g].pc = "read" /\ ~sess'[g].finished
                      => sess'[g].pc \in {"read", "play", "sleep"}
                 /\ sess[g].pc = "sleep" => sess'[g].pc = "loop"
                 /\ sess[g].pc = "loop" => sess'[g].pc = "open"]_vars
    /\ [](\A g \in Games :
            sess[g].pc \in SessionLeft => sess[g].finished \/ stop_event)
    /\ [](\A g \in SoloGames : ~Registered(g) => sess[g].pc = "done")
    /\ [][~stop_event /\ mpc' # mpc
            => /\ mpc = "open" => mpc' \in {"read", "sleep"}
               /\ mpc = "read" => mpc' \in {"read", "sleep"}
               /\ mpc = "sleep" => mpc' = "loop"
               /\ mpc = "loop" => mpc' = "open"]_vars
    /\ [](mpc \in {"shutdown", "snapshot", "join", "done"} => stop_event)
    /\ \A g \in SoloGames : (sess[g].pc = "sleep") ~> (sess[g].pc = "open" \/ stop_event)
    /\ (mpc = "sleep") ~> (mpc = "open" \/ stop_event)

\* C16 witness: after enough failures to reach the largest delay from the
\* smallest base, the session and the manager are each opening a stream again,
\* and the session is still registered.
C16_Witness ==
    /\ config.reconnect_base_seconds = 1
    /\ sess["g1"].pc = "open" /\ sess["g1"].backoff = 4 /\ Registered("g1")
    /\ mpc = "open" /\ mbackoff = 4
    /\ ~stop_event

(***************************************************************************)
(* The manager on challenges and game starts, with sessions that only end. *)
(***************************************************************************)
\* The incoming events of the challenge specification.
ChallengeEvents ==
    {ev \in IncomingEvents(Games) : ev.type = "challenge" \/ (ev.type = "gameStart" /\ ev.id # "")}

\* The one event the sessions of the challenge specification are sent: the
\* game is over.
GameOverEvents == {GameEvent("gameState", "standard", "startpos", "neither", TRUE, <<>>, "mate")}

\* The steps of a session that is sent no position to play.
IdleSessionStep(g) ==
    \/ SessionLoop(g)
    \/ SessionOpen(g, TRUE)
    \/ \E ev \in GameOverEvents : SessionEvent(g, ev, "ok")
    \/ SessionFinally(g, "ok", "ok")
    \/ SessionExit(g)

NextChallenge ==
    \/ ManagerLoopStep(ChallengeEvents)
    \/ ChallengeStep
    \/ GameStartStep
    \/ Signal
    \/ \E g \in Games : IdleSessionStep(g)

SpecChallenge == Init /\ [][NextChallenge]_vars

\* The manager is reading a challenge that carries an id, with the stop
\* signal unset: the step taken from here is the decision of _handle_challenge.
\* mev' is the challenge read.
DecidesChallenge ==
    /\ mpc = "read" /\ ~stop_event
    /\ mev'.type = "challenge" /\ mev'.id # ""
    /\ mpc' # "read" \/ mev' # mev

\* C17: a challenge with an id is sent to the decline request with reason
\* "variant" when its variant key is not accepted, whatever the number of
\* registered sessions; otherwise to the decline request with reason "later"
\* when the number of registered sessions is at least the cap; otherwise to
\* the accept request.  The first request made for the challenge is the one
\* decided, for the challenge's id, and the requests made for one challenge
\* never include both an accept and a decline.
C17_ChallengeDecision ==
    /\ [][DecidesChallenge
            => IF mev'.variant \notin allowed_variants
               THEN mpc' = "decline" /\ mev'.reason = "variant"
               ELSE IF Len(active_games) >= config.max_concurrent_games
               THEN mpc' = "decline" /\ mev'.reason = "later"
               ELSE mpc' = "accept"]_vars
    /\ [][DecidesChallenge => mpc' \in {"accept", "decline"} /\ mcalls' = <<>>]_vars
    /\ [][mpc = "decline" /\ mpc' # mpc
            => \E o \in {"ok", "TypeError", "error"} :
                  mcalls' = <<MCall("decline_challenge", mev.id, mev.reason, o)>>]_vars
    /\ [][mpc = "accept" /\ mpc' # mpc
            => \E o \in {"ok", "error"} :
                  mcalls' = <<MCall("accept_challenge", mev.id, "None", o)>>]_vars
    /\ [](\A i, j \in 1..Len(mcalls) :
            ~(mcalls[i].op = "accept_challenge" /\ mcalls[j].op = "decline_challenge"))

\* C17 witness: at capacity, a challenge of a variant that is not accepted was
\* declined with reason "variant".
C17_Witness ==
    /\ Len(active_games) = config.max_concurrent_games
    /\ mev.type = "challenge" /\ mev.variant = "chess960"
    /\ mcalls = <<MCall("decline_challenge", "c1", "variant", "ok")>>
    /\ mpc = "read"

\* C18: a session whose colour is unresolved holds no engine, is not at an
\* engine request or a move submission, and its call log holds no engine
\* start, no engine request and no make_move.
C18_UnresolvedColourNoAction ==
    \A g \in Games :
        sess[g].is_white = "None" /\ sess[g].pc \notin {"absent", "done"}
          => /\ sess[g].engine = "None"
             /\ sess[g].pc \notin {"play", "submit"}
             /\ \A i \in 1..Len(sess[g].calls) :
                    sess[g].calls[i].op \notin {"popen_uci", "play", "make_move"}

\* C18 witness: a gameFull whose player names did not match left the colour
\* unresolved, and the session has replayed a position from the initial
\* position of that gameFull without acting on it.
C18_Witness ==
    LET s == sess["g1"]
    IN  /\ s.is_white = "None" /\ s.pc = "read" /\ ~s.finished
        /\ s.initial_fen = "fenBlack"
        /\ s.board = PositionAfter("fenBlack", <<"m">>)
        /\ s.engine = "None"

\* C19: once a session's colour is white or black, no step of the session
\* changes it for as long as the session runs.
C19_ColourResolvedOnce ==
    [][\A g \in Games :
          sess[g].is_white # "None" /\ sess'[g].pc \notin {"new", "done"}
            => sess'[g].is_white = sess[g].is_white]_vars

(***************************************************************************)
(* The time-budget specification: _build_limit on every state dict and     *)
(* overhead margin within the bounds.                                      *)
(***************************************************************************)
ClockValues == {Missing} \cup {Millis(n) : n \in 0..MaxClock}
IncValues == {Missing} \cup {Millis(n) : n \in 0..MaxInc}

ClockStates ==
    {ClockState(wt, bt, wi, bi) : wt \in ClockValues, bt \in ClockValues,
                                  wi \in IncValues, bi \in IncValues}

\* BotConfig with the two fields _build_limit reads; move_overhead_ms has the
\* minimum 0.
LimitConfig(overhead) ==
    [max_concurrent_games |-> 1, reconnect_base_seconds |-> 1, max_backoff_seconds |-> 1,
     move_overhead_ms |-> overhead, fallback_move_time_seconds |-> 1]

\* A session about to compute a move for a state dict with any clock fields.
InitLimit ==
    /\ config \in {LimitConfig(o) : o \in 0..MaxOverhead}
    /\ stop_event = FALSE
    /\ games_lock = "free"
    /\ active_games = <<"g1">>
    /\ sess = [g \in Games |-> IF g = "g1"
                               THEN [NewSession EXCEPT !.pc = "play", !.attempt = 1,
                                                       !.is_white = "True",
                                                       !.backoff = config.reconnect_base_seconds]
                               ELSE NoSession]
    /\ mpc = "read"
    /\ mev = [IncomingEvent("gameStart", "g1", "standard") EXCEPT !.reason = "insert"]
    /\ mbackoff = config.reconnect_base_seconds
    /\ joining = <<>>
    /\ mcalls = <<>>
    /\ hist = [g \in Games |-> NoPly]
    /\ limit \in {[state |-> st, result |-> NoLimit.result, built |-> FALSE] : st \in ClockStates}

\* _compute_move, line 326: the Limit is built from the state dict.
BuildLimitStep ==
    /\ ~limit.built
    /\ limit' = [limit EXCEPT !.result = BuildLimit(limit.state), !.built = TRUE]
    /\ UNCHANGED <<config, stop_event, games_lock, active_games, sess, mainVars, hist>>

NextLimit == BuildLimitStep

SpecLimit == InitLimit /\ [][NextLimit]_vars

\* A side reports a positive remaining time.
ReportsPositive(value) == value.kind = "int" /\ value.ms > 0

\* C20: when both sides report a positive remaining time, the Limit built is
\* clock-aware, each clock being max(0, remaining - overhead) and each
\* increment the reported one (0 when missing); the Limit is the fixed
\* fallback time only when the remaining time of a side is missing or not
\* positive.
C20_ClockAwareBudget ==
    limit.built
      => LET st == limit.state
             both == ReportsPositive(st.wtime) /\ ReportsPositive(st.btime)
         IN  /\ both
                  => limit.result =
                        Limit(-1,
                              Max(0, st.wtime.ms - config.move_overhead_ms),
                              Max(0, st.btime.ms - config.move_overhead_ms),
                              IF st.winc.kind = "int" THEN st.winc.ms ELSE 0,
                              IF st.binc.kind = "int" THEN st.binc.ms ELSE 0)
             /\ limit.result.time # -1 => ~both

\* The make_move requests of a call log.
MakeMoveCalls(calls) == SelectSeq(calls, LAMBDA c : c.op = "make_move")

\* C21: a make_move that fails with a "not your turn" response leaves the
\* session as a successful make_move does (the marker is the ply of the
\* board, the handler returns to the stream, the session is unfinished); in
\* the state after it the call log of the event holds that one make_move.
C21_NotYourTurnSetsMarker ==
    /\ \A g \in Games :
          sess[g].pc = "submit"
            => LET s == sess[g]
                   ok == SubmitMove(s, "ok")
                   nyt == SubmitMove(s, "not your turn")
               IN  /\ [nyt EXCEPT !.calls = ok.calls] = ok
                   /\ nyt.pending_move_ply = Ply(s.board)
                   /\ nyt.pc = "read" /\ ~nyt.finished
                   /\ MakeMoveCalls(nyt.calls) = <<Call("make_move", s.move, "not your turn")>>
    /\ \A g \in Games :
          LET s == sess[g]
          IN  (\E i \in 1..Len(s.calls) :
                  s.calls[i].op = "make_move" /\ s.calls[i].result = "not your turn")
                => /\ Len(MakeMoveCalls(s.calls)) = 1
                   /\ s.calls[Len(s.calls)].op = "make_move"
                   /\ s.pc = "read" /\ ~s.finished
                   /\ s.pending_move_ply = Ply(s.board)

\* C21 witness: playing black on a one-move board, the submission was
\* answered "not your turn" and the marker is ply 1.
C21_Witness ==
    LET s == sess["g1"]
    IN  /\ s.pc = "read" /\ s.is_white = "False" /\ s.board.stack = <<"m">>
        /\ s.calls # <<>>
        /\ s.calls[Len(s.calls)] = Call("make_move", "e2e4", "not your turn")
        /\ s.pending_move_ply = 1

\* The positions in which a session is blocked: opening or reading the
\* stream, the engine request, the move submission, the backoff sleep.
SessionBlocking == {"open", "read", "play", "submit", "sleep"}

\* C22: games_lock is never held by a session outside the registry removal
\* of its exit, and while a session g is blocked, every other session h can
\* take the step its own position calls for (handle an event, get the engine's
\* answer, submit, shut its engine down, and deregister as soon as games_lock
\* is free), and the manager can take the lock when it is free, check and
\* register a session.
C22_BlockedSessionBlocksNoOne ==
    /\ games_lock \in {"free", "main"}
    /\ \A g \in Games :
          sess[g].pc \in SessionBlocking
            => /\ \A h \in Games \ {g} :
                    /\ sess[h].pc = "read"
                         => ENABLED (\E ev \in CoarseGameEvents : SessionEvent(h, ev, "ok"))
                    /\ sess[h].pc = "play"
                         => ENABLED (\E o \in CoarseAttemptOutcomes : SessionPlay(h, o))
                    /\ sess[h].pc = "submit" => ENABLED SessionSubmit(h, "ok")
                    /\ sess[h].pc = "finally" => ENABLED SessionFinally(h, "ok", "ok")
                    /\ sess[h].pc = "exit" /\ games_lock = "free" => ENABLED SessionExit(h)
               /\ mpc = "gs_acquire" /\ games_lock = "free" => ENABLED MainGsAcquire
               /\ mpc = "gs_check" => ENABLED MainGsCheck
               /\ mpc = "gs_insert" => ENABLED MainGsInsert

\* C22 witness: one session is blocked in its engine request while the other
\* is about to deregister and the lock is free.
C22_Witness ==
    /\ sess["g1"].pc = "play"
    /\ sess["g2"].pc = "exit"
    /\ games_lock = "free"

\* The entries a step appended to a call log.
Appended(before, after) == SubSeq(after, Len(before) + 1, Len(after))

\* C23: a session has one engine handle, which is None for a session that has
\* not run or has ended; an engine request step starts a subprocess only when
\* the session holds none at that step, the handle becomes set only by the
\* session's own successful start, and any other step leaves the handle or
\* drops it; in a call log a shutdown (quit) lies between a successful start
\* and any later start.
C23_OneEnginePerSession ==
    /\ [](\A g \in Games :
            /\ sess[g].engine \in {"None", "proc"}
            /\ sess[g].pc \in {"absent", "new", "done"} => sess[g].engine = "None")
    /\ [][\A g \in Games :
            IF sess[g].pc = "play" /\ sess'[g] # sess[g]
            THEN LET new == Appended(sess[g].calls, sess'[g].calls)
                     starts == SelectSeq(new, LAMBDA c : c.op = "popen_uci")
                 IN  /\ Len(starts) <= 1
                     /\ starts # <<>> => sess[g].engine = "None"
                     /\ sess[g].engine = "None" /\ sess'[g].engine = "proc"
                          => starts = <<Call("popen_uci", "engine", "ok")>>
            ELSE sess'[g].engine \in {sess[g].engine, "None"}]_vars
    /\ [](\A g \in Games :
            LET c == sess[g].calls
            IN  \A i, j \in 1..Len(c) :
                    i < j /\ c[i] = Call("popen_uci", "engine", "ok") /\ c[j].op = "popen_uci"
                      => \E k \in (i + 1)..(j - 1) : c[k].op = "quit")

\* C23 witness: within one move request the session started a subprocess,
\* shut it down after it terminated, and holds the one it started next.
C23_Witness ==
    LET s == sess["g1"]
    IN  /\ s.pc = "submit" /\ s.engine = "proc"
        /\ Len(SelectSeq(s.calls, LAMBDA c : c = Call("popen_uci", "engine", "ok"))) = 2

\* The events with a valid move list that tell the game is over for a session
\* whose initial position is fen: the status is not "started", or the
\* reconstructed board is game-over.
TerminalEvents(fen) ==
    {ev \in ValidStateEvents :
        \/ ev.status # "started"
        \/ IsGameOver(PositionAfter(IF ev.type = "gameFull" THEN ev.initialFen ELSE fen,
                                    ev.moves))}

\* C24, amended: in every state in which the session handles events, whatever
\* its colour and marker, handling an event whose move list replays and whose
\* status is not "started" or whose reconstructed board is game-over sets
\* finished and returns to the
\* stream with an empty call log and the engine handle as it was.
C24_TerminalEventFinishes ==
    \A g \in Games :
        sess[g].pc = "read" /\ ~Leaving(sess[g])
          => \A ev \in TerminalEvents(sess[g].initial_fen) :
                LET s == [sess[g] EXCEPT !.calls = <<>>]
                    t == HandleEvent(s, ev, "ok")
                IN  /\ t.finished
                    /\ t.pc = "read"
                    /\ t.calls = <<>>
                    /\ t.engine = s.engine

\* C24 witness: the session, white with its move at ply 0 unacknowledged, has
\* handled a list that ends the game with white to move, and is finished.
C24_Witness ==
    LET s == sess["g1"]
    IN  /\ s.pc = "read" /\ s.finished /\ s.calls = <<>>
        /\ s.is_white = "True" /\ s.pending_move_ply = 0
        /\ s.board = PositionAfter("startpos", <<"m", "k">>)
        /\ s.engine = "proc"

\* The state-carrying events of accepted variant whose status is not
\* "started", whether or not their move list replays.
TerminalStatusEvents ==
    {ev \in AllGameEvents :
        /\ ev.type \in {"gameFull", "gameState"} /\ ev.variant \in allowed_variants
        /\ ev.hasState /\ ev.status # "started"}

\* C24 as stated: handling any event whose status is not "started" sets
\* finished.
C24_AsStated ==
    \A g \in Games :
        sess[g].pc = "read" /\ ~Leaving(sess[g])
          => \A ev \in TerminalStatusEvents :
                HandleEvent([sess[g] EXCEPT !.calls = <<>>], ev, "ok").finished

\* The positions of a session object whose thread cannot act: none was ever
\* created for the id, or its thread has ended.
SessionGone == {"absent", "done"}

\* C25: the manager constructs a session for a game id only when the id is
\* not registered and the session created last for it is gone (never created,
\* or ended with its engine handle dropped); every session that is not gone
\* is registered, and the registry names no id twice.
C25_NoTwoSessionsPerGame ==
    /\ mpc = "gs_insert"
         => /\ ~Registered(mev.id)
            /\ sess[mev.id].pc \in SessionGone
            /\ sess[mev.id].engine = "None"
    /\ \A g \in Games : sess[g].pc \notin SessionGone => Registered(g)
    /\ \A i, j \in 1..Len(active_games) : active_games[i] = active_games[j] => i = j

\* C25 witness: a game start for an id whose earlier session finished and
\* ended is about to construct a new session, while the other game runs.
C25_Witness ==
    /\ mpc = "gs_insert" /\ mev.id = "g1"
    /\ sess["g1"].pc = "done" /\ sess["g1"].finished
    /\ sess["g2"].pc = "play"

\* C26: every platform request (an entry appended to the manager's call log
\* or to a session's) is made in a step that begins with games_lock free, and
\* the manager never waits for a platform request while it holds the lock.
C26_NoRequestUnderLock ==
    [][/\ Len(mcalls') > Len(mcalls) => games_lock = "free"
       /\ \A g \in Games :
             sess[g].pc \in {"read", "play", "submit"} /\ Len(sess'[g].calls) > Len(sess[g].calls)
               => games_lock # g]_vars

\* C27: a finished session is in the stream read it was in, or past its loop;
\* every step keeps it finished, moves it only towards the end of run, leaves
\* board, initial position, colour and marker as they are until the thread has
\* ended, and logs no request but the quit and close of the engine shutdown.
C27_FinishedIsAbsorbing ==
    /\ [](\A g \in Games :
            sess[g].finished => sess[g].pc \in {"read", "finally", "exit", "done"})
    /\ [][\A g \in Games :
            sess[g].finished /\ sess'[g].pc # "new"
              => /\ sess'[g].finished
                 /\ sess'[g].pc \in {sess[g].pc, "finally", "exit", "done"}
                 /\ sess'[g].pc # "done"
                      => /\ sess'[g].board = sess[g].board
                         /\ sess'[g].initial_fen = sess[g].initial_fen
                         /\ sess'[g].is_white = sess[g].is_white
                         /\ sess'[g].pending_move_ply = sess[g].pending_move_ply
                 /\ sess'[g] # sess[g]
                      => \A i \in 1..Len(sess'[g].calls) :
                            sess'[g].calls[i].op \in {"quit", "close"}]_vars

\* C27 witness: a session that holds an engine and was finished by an event
\* has left its loop.
C27_Witness ==
    LET s == sess["g1"]
    IN  s.finished /\ s.pc = "finally" /\ s.engine = "proc" /\ ~stop_event

\* The sessions that hold an engine subprocess.
HoldingEngine == {g \in Games : sess[g].engine # "None"}

\* C28: a session that holds an engine is registered and has not reached its
\* deregistration, so the sessions holding an engine are at most as many as
\* the registered ones, which are at most max_concurrent_games.
C28_EnginesWithinCapacity ==
    /\ \A g \in HoldingEngine : Registered(g) /\ sess[g].pc \notin {"exit", "done"}
    /\ Cardinality(HoldingEngine) <= Len(active_games)
    /\ Len(active_games) <= config.max_concurrent_games

\* C28 witness: one session has shut its engine down and is about to
\* deregister while the other holds an engine.
C28_Witness ==
    /\ sess["g1"].pc = "exit" /\ sess["g1"].engine = "None"
    /\ sess["g1"].calls = <<Call("quit", "engine", "ok")>>
    /\ Registered("g1")
    /\ sess["g2"].engine = "proc"

(***************************************************************************)
(* The subscription loops with handlers that raise.                        *)
(***************************************************************************)
\* The game events of the manager specification and one that makes
\* _handle_event raise.
RaisingGameEvents == CoarseGameEvents \cup {PlainEvent("malformed")}

NextRaise ==
    \/ ManagerLoopStep(QuietIncomingEvents)
    \/ Signal
    \/ \E g \in SoloGames :
          SessionStep(g, RaisingGameEvents, CoarseAttemptOutcomes, {"ok"}, {"ok"})

SpecRaise == InitBackoff /\ [][NextRaise]_vars

\* C29: with the stop signal unset, a session that is not finished leaves a
\* stream read without its handler returning (the stream ended, or the read
\* or the handler raised) only to the backoff sleep, with board, initial
\* position, colour, marker, engine handle and delay as they were; the sleep
\* lasts the delay held and leads to the loop condition, and that to another
\* stream open.  The manager, having read an event that makes its handler
\* raise, goes to its sleep, from there to the loop condition and to another
\* stream open, and neither loop is left.
C29_HandlerExceptionIsRetried ==
    /\ [][\A g \in Games :
            (/\ sess[g].pc = "read" /\ ~stop_event /\ ~sess[g].finished
             /\ sess'[g].pc \notin {"read", "play"})
              => sess'[g] = [sess[g] EXCEPT !.pc = "sleep", !.calls = <<>>]]_vars
    /\ [][\A g \in Games :
            sess[g].pc = "sleep" /\ sess'[g] # sess[g]
              => sess'[g] = [sess[g] EXCEPT
                                !.pc = "loop",
                                !.backoff = Min(2 * @, config.max_backoff_seconds)]]_vars
    /\ [][\A g \in Games :
            sess[g].pc = "loop" /\ ~stop_event /\ sess'[g] # sess[g]
              => sess'[g] = [sess[g] EXCEPT !.pc = "open"]]_vars
    /\ [][mpc = "read" /\ ~stop_event /\ mev'.type = "malformed" /\ mpc' # mpc
            => mpc' = "sleep" /\ mbackoff' = mbackoff]_vars
    /\ [][~stop_event /\ mpc' # mpc
            => /\ mpc = "sleep"
                    => mpc' = "loop" /\ mbackoff' = Min(2 * mbackoff, config.max_backoff_seconds)
               /\ mpc = "loop" => mpc' = "open"]_vars
    /\ [](mpc \in {"shutdown", "snapshot", "join", "done"} => stop_event)
    /\ [](\A g \in Games : sess[g].pc \in SessionLeft => sess[g].finished \/ stop_event)

\* C29 witness: the manager sleeps after an event that made its handler
\* raise, and the session, white with its move at ply 0 unacknowledged and an
\* engine held, sleeps after leaving its stream.
C29_Witness ==
    /\ mpc = "sleep" /\ mev.type = "malformed"
    /\ sess["g1"].pc = "sleep" /\ sess["g1"].is_white = "True"
    /\ sess["g1"].pending_move_ply = 0 /\ sess["g1"].engine = "proc"
    /\ ~stop_event

\* C30: while the manager is about to call or is calling accept_challenge, the
\* registry holds fewer sessions than max_concurrent_games, and no step taken
\* meanwhile makes the registry grow; the accept request is made in such a
\* state.
C30_AcceptBelowCapacity ==
    /\ [](mpc = "accept" => Len(active_games) < config.max_concurrent_games)
    /\ [][mpc = "accept" => Len(active_games') <= Len(active_games)]_vars
    /\ [][(\E i \in 1..Len(mcalls') : mcalls'[i].op = "accept_challenge") /\ mcalls' # mcalls
            => mpc = "accept" /\ Len(active_games) < config.max_concurrent_games]_vars

\* C30 witness: with cap 2 and one session registered, which is about to
\* deregister, the manager is calling accept_challenge.
C30_Witness ==
    /\ mpc = "accept"
    /\ config.max_concurrent_games = 2 /\ Len(active_games) = 1
    /\ \E g \in Games : sess[g].pc = "exit"

\* The events a session in state s handles as valid and non-terminal: a board
\* is reconstructed, the status is "started" and the board is not game-over.
NonTerminalEvents(s) ==
    {ev \in AllGameEvents :
        /\ Reconstructed(s, ev) # ValueError
        /\ ev.status = "started"
        /\ ~IsGameOver(Reconstructed(s, ev))}

\* With the marker set, handling a valid non-terminal event of greater ply
\* clears the marker and, on the bot's turn, starts the move request within
\* the same handler call; an event of ply at most the marker leaves the marker
\* and starts no request.
MarkerHandling ==
    \A g \in Games :
        LET s == [sess[g] EXCEPT !.calls = <<>>]
            k == s.pending_move_ply
        IN  s.pc = "read" /\ ~Leaving(s) /\ k # NoPly
              => \A ev \in NonTerminalEvents(s) :
                    LET t == HandleEvent(s, ev, "ok")
                        ourTurn == t.is_white # "None" /\ Turn(t.board) = OurColor(t)
                    IN  /\ t.board = Reconstructed(s, ev)
                        /\ Ply(t.board) > k
                             => /\ t.pending_move_ply = NoPly
                                /\ ourTurn => t.pc = "play" /\ t.attempt = 1 /\ t.event = ev
                                /\ ~ourTurn => t.pc = "read"
                        /\ Ply(t.board) <= k
                             => t.pending_move_ply = k /\ t.pc = "read" /\ t.calls = <<>>

\* The steps of a move request: an attempt leads to another attempt, to the
\* submission of the move the engine returned for the same event, or back to
\* the stream; the submission makes one make_move call with that move.
RequestSteps ==
    [][\A g \in Games :
        /\ sess[g].pc = "play" /\ sess'[g].pc = "submit"
             => /\ sess'[g].event = sess[g].event
                /\ sess'[g].move \in EngineMoves
                /\ sess'[g].calls[Len(sess'[g].calls)] = Call("play", "engine", sess'[g].move)
        /\ sess[g].pc = "submit" /\ sess'[g] # sess[g]
             => /\ sess'[g].pc = "read"
                /\ \E o \in MakeMoveOutcomes :
                      sess'[g].calls = Append(sess[g].calls, Call("make_move", sess[g].move, o))]_vars

\* C31, amended: with the marker at k, a valid non-terminal event of ply
\* greater than k clears the marker and, on the bot's turn, starts a move
\* request while that event is handled; the move is submitted within the same
\* event when the engine returns one, and the request goes back to the stream
\* without a submission only when no engine answer of the event held a move;
\* an event of ply at most k leaves the marker set and starts no request.
C31_AcknowledgedThenMoves ==
    /\ []MarkerHandling
    /\ RequestSteps
    /\ [][\A g \in Games :
            sess[g].pc = "play" /\ sess'[g].pc = "read"
              => \A i \in 1..Len(sess'[g].calls) :
                    ~(sess'[g].calls[i].op = "play" /\ sess'[g].calls[i].result \in EngineMoves)]_vars

\* C31 witness: as white the session holds marker 0 and reads the stream; an
\* event with two moves has a greater ply on the bot's turn, an event with one
\* move a greater ply on the opponent's turn, the empty list the ply 0.
C31_Witness ==
    LET s == sess["g1"]
    IN  /\ s.pc = "read" /\ ~Leaving(s)
        /\ s.pending_move_ply = 0 /\ s.is_white = "True" /\ s.initial_fen = "startpos"
        /\ \E ev \in NonTerminalEvents(s) :
              ev.type = "gameState" /\ Len(ev.moves) = 2
              /\ HandleEvent(s, ev, "ok").pc = "play"

\* C31 as stated: the request started by an acknowledging event on the bot's
\* turn never goes back to the stream without a submission, whatever the
\* engine answers.
C31_AsStated ==
    \A g \in Games :
        LET s == [sess[g] EXCEPT !.calls = <<>>]
            k == s.pending_move_ply
        IN  s.pc = "read" /\ ~Leaving(s) /\ k # NoPly
              => \A ev \in NonTerminalEvents(s), o \in AllAttemptOutcomes :
                    LET t == HandleEvent(s, ev, "ok")
                    IN  Ply(t.board) > k /\ t.pc = "play"
                          => ComputeAttempt(t, o).pc \in {"play", "submit"}

\* The outcomes of make_move that are failures other than "not your turn".
OtherSubmitFailures == MakeMoveOutcomes \ {"ok", "not your turn"}

\* The last request of the event handled last was a make_move that failed
\* with an error other than "not your turn".
SubmissionFailed(s) ==
    /\ s.calls # <<>>
    /\ s.calls[Len(s.calls)].op = "make_move"
    /\ s.calls[Len(s.calls)].result \in OtherSubmitFailures

\* A make_move failure other than "not your turn" is swallowed: the handler
\* returns to the stream with the marker unset and the session unfinished,
\* having made that one make_move call; no event has more than one make_move
\* call; and an event that restates the position starts a new move request.
SubmitFailureHandling ==
    /\ \A g \in Games :
          sess[g].pc = "submit"
            => \A o \in OtherSubmitFailures :
                  LET s == sess[g]
                      t == SubmitMove(s, o)
                  IN  /\ t.pc = "read" /\ ~t.finished /\ t.pending_move_ply = NoPly
                      /\ MakeMoveCalls(t.calls) = <<Call("make_move", s.move, o)>>
                      /\ [t EXCEPT !.calls = s.calls] = ReturnToStream(s)
    /\ \A g \in Games : Len(MakeMoveCalls(sess[g].calls)) <= 1
    /\ \A g \in Games :
          SubmissionFailed(sess[g])
            => LET s == sess[g]
               IN  /\ s.pc = "read" /\ ~s.finished /\ s.pending_move_ply = NoPly
                   /\ SamePositionEvents(s) # {}
                   /\ \A ev \in SamePositionEvents(s) :
                          LET t == HandleEvent([s EXCEPT !.calls = <<>>], ev, "ok")
                          IN  t.pc = "play" /\ t.attempt = 1 /\ t.board = s.board

\* C32, amended: a make_move failure other than "not your turn" leaves the
\* marker unset and the session unfinished, no exception leaves the handler,
\* make_move was called once for the event (and never more than once for any
\* event); a later event at the same position starts a new move request, and
\* the move the engine returns for it is submitted by a new make_move call.
C32_SubmitFailureLeavesTurnOpen ==
    /\ []SubmitFailureHandling
    /\ RequestSteps

\* C32 witness: make_move failed with an error that is no response error; the
\* handler is back at the stream with the marker unset.
C32_Witness ==
    LET s == sess["g1"]
    IN  /\ s.pc = "read" /\ ~s.finished /\ s.pending_move_ply = NoPly
        /\ SubmissionFailed(s)
        /\ s.calls[Len(s.calls)].result = "error"
        /\ s.is_white = "False" /\ s.board.stack = <<"m">>

\* C32 as stated: after such a failure, the request a same-position event
\* starts never goes back to the stream without a submission.
C32_AsStated ==
    /\ SubmitFailureHandling
    /\ \A g \in Games :
          SubmissionFailed(sess[g])
            => \A ev \in SamePositionEvents(sess[g]), o \in AllAttemptOutcomes :
                  LET t == HandleEvent([sess[g] EXCEPT !.calls = <<>>], ev, "ok")
                  IN  ComputeAttempt(t, o).pc \in {"play", "submit"}

\* The answers of engine.play that fail the request without the subprocess
\* having terminated: an answer without a move, an error.
OtherPlayFailures == {"none", "error"}

\* C33: an attempt of a move request that fails with an error other than
\* termination (the play request answers without a move or raises, or the lazy
\* start raises) ends the request at once: the handler is back at the stream
\* with no move and no further attempt, no quit or close request was made, the
\* handle is the one the attempt played on, and the next request plays on it
\* without starting a subprocess; when the lazy start raised, no subprocess
\* exists and the session holds no handle.
C33_OtherErrorNoRestart ==
    \A g \in Games :
        sess[g].pc = "play"
          => \A o \in AllAttemptOutcomes :
                LET s == sess[g]
                    t == ComputeAttempt(s, o)
                    new == Appended(s.calls, t.calls)
                    started == IF s.engine = "None"
                               THEN <<Call("popen_uci", "engine", "ok")>> ELSE <<>>
                IN  /\ (s.engine # "None" \/ o.start = "ok") /\ o.play \in OtherPlayFailures
                      => /\ t.pc = "read" /\ t.move = "None" /\ t.attempt = 0
                         /\ new = started \o <<Call("play", "engine", o.play)>>
                         /\ t.engine = "proc"
                         /\ ~t.finished /\ t.pending_move_ply = s.pending_move_ply
                         /\ \A o2 \in AllAttemptOutcomes :
                               LET u == ComputeAttempt([t EXCEPT !.pc = "play", !.attempt = 1,
                                                                 !.calls = <<>>], o2)
                               IN  /\ u.calls # <<>>
                                   /\ u.calls[1] = Call("play", "engine", o2.play)
                    /\ s.engine = "None" /\ o.start = "error"
                      => /\ t.pc = "read" /\ t.move = "None" /\ t.attempt = 0
                         /\ new = <<Call("popen_uci", "engine", "error")>>
                         /\ t.engine = "None"

\* C33 witness: the engine held from an earlier event answered the play
\* request of this event with an error; the handler is back at the stream, the
\* handle is held and the event's only request is that play.
C33_Witness ==
    LET s == sess["g1"]
    IN  /\ s.pc = "read" /\ s.engine = "proc" /\ ~s.finished
        /\ s.calls = <<Call("play", "engine", "error")>>

\* The requests of a call log with the operation op.
CallsOf(calls, op) == SelectSeq(calls, LAMBDA c : c.op = op)

\* C34: the requests of one move request hold at most two subprocess starts
\* and at most two plays, and the attempt counter never passes 2; after a
\* request whose two attempts both ended with the subprocess terminated the
\* session holds no engine handle, and the first engine call of the next
\* request is the start of a subprocess.
C34_AtMostTwoAttempts ==
    \A g \in Games :
        LET s == sess[g]
        IN  /\ Len(CallsOf(s.calls, "popen_uci")) <= 2
            /\ Len(CallsOf(s.calls, "play")) <= 2
            /\ s.attempt \in 0..2
            /\ s.pc = "play" => s.attempt \in 1..2
            /\ TwiceTerminated(s.calls)
                 => /\ s.engine = "None" /\ s.pc = "read"
                    /\ \A o \in AllAttemptOutcomes :
                          LET u == ComputeAttempt([s EXCEPT !.pc = "play", !.attempt = 1,
                                                            !.calls = <<>>], o)
                          IN  u.calls[1] = Call("popen_uci", "engine", o.start)

\* C34 witness: a request started two subprocesses and played twice, both
\* plays ended with the subprocess terminated and both shutdowns needed the
\* forced close; no handle is held.
C34_Witness ==
    LET s == sess["g1"]
    IN  /\ s.pc = "read" /\ s.engine = "None"
        /\ Len(CallsOf(s.calls, "popen_uci")) = 2
        /\ Len(CallsOf(s.calls, "play")) = 2
        /\ Len(CallsOf(s.calls, "close")) = 2
        /\ TwiceTerminated(s.calls)

\* Outcomes of engine.quit and engine.close.
ShutdownOutcomes == {"ok", "error"}

\* C35: in every state, whatever quit and close answer, _shutdown_engine
\* returns with no handle held and nothing else changed; with no handle held it
\* makes no request; with a handle held it requests quit, and close after that
\* only when quit failed; a second call, whatever the answers would be, makes
\* no request and changes nothing. The shutdown of the finally block therefore
\* leaves the thread without a handle.
C35_ShutdownIdempotent ==
    /\ \A g \in Games, q \in ShutdownOutcomes, c \in ShutdownOutcomes :
          LET s == sess[g]
              t == ShutdownEngine(s, q, c)
              new == Appended(s.calls, t.calls)
          IN  /\ t.engine = "None"
              /\ [t EXCEPT !.calls = s.calls, !.engine = s.engine] = s
              /\ SubSeq(t.calls, 1, Len(s.calls)) = s.calls
              /\ s.engine = "None" => new = <<>>
              /\ s.engine # "None" /\ q = "ok" => new = <<Call("quit", "engine", "ok")>>
              /\ s.engine # "None" /\ q # "ok"
                   => new = <<Call("quit", "engine", q), Call("close", "engine", c)>>
              /\ \A q2 \in ShutdownOutcomes, c2 \in ShutdownOutcomes :
                    ShutdownEngine(t, q2, c2) = t
    /\ \A g \in Games : sess[g].pc \in {"exit", "done"} => sess[g].engine = "None"

\* C35 witness: the finally block shut down a running engine whose quit and
\* close both failed; the thread is about to deregister without a handle.
C35_Witness ==
    LET s == sess["g1"]
    IN  /\ s.pc = "exit" /\ s.engine = "None"
        /\ s.calls = <<Call("quit", "engine", "error"), Call("close", "engine", "error")>>

\* The reasons _handle_challenge declines with.
SpecificReasons == {"variant", "later"}

\* The manager's step made a decline request with a specific reason that the
\* platform rejected.
SpecificDeclineRejected ==
    /\ mcalls' # mcalls /\ mcalls' # <<>>
    /\ LET c == mcalls'[Len(mcalls')]
       IN  c.op = "decline_challenge" /\ c.reason \in SpecificReasons /\ c.result = "error"

\* C36: a decline request with reason "variant" or "later" that the platform
\* rejects is followed by one more decline request, with reason "generic";
\* whatever that request answers the handler returns to the stream, and the
\* requests made for a declined challenge hold at most one "generic" decline
\* and no accept_challenge.
C36_RejectedDeclineRetriedGeneric ==
    /\ [][SpecificDeclineRejected => mpc' = "decline_retry" /\ mev'.reason = "generic"]_vars
    /\ [][mpc = "decline_retry" /\ mev.reason = "generic" /\ mcalls' # mcalls
            => /\ mpc' = "read"
               /\ \E o \in {"ok", "error"} :
                     mcalls' = Append(mcalls, MCall("decline_challenge", mev.id, "generic", o))]_vars
    /\ [](LET declines == SelectSeq(mcalls, LAMBDA c : c.op = "decline_challenge")
          IN  declines # <<>>
                => /\ Len(SelectSeq(declines, LAMBDA c : c.reason = "generic")) <= 1
                   /\ \A i \in 1..Len(mcalls) : mcalls[i].op # "accept_challenge")

====
